---- MODULE Spec2Model ----
(***************************************************************************)
(* A model of the LMS backend (bahajdaita/lms-backend): the relational     *)
(* tables the controllers read and write, and one action per request       *)
(* handler.  Every action is a whole request: the route's middleware       *)
(* (authorize, express-validator rules) followed by the controller, and    *)
(* it records the HTTP status and the response body in resp.               *)
(*                                                                         *)
(* Grades are kept in hundredths of a point, so that                       *)
(* grade * (1 - latePenalty / 100) is computed exactly for integer raw     *)
(* grades and integer percentages.                                         *)
(***************************************************************************)
EXTENDS Integers, Sequences, FiniteSets, TLC

VARIABLES
    users,        \* users.role, by user id
    courses,      \* courses table, by id
    categories,   \* categories table: the set of ids
    modules,      \* modules table, by id
    lessons,      \* lessons table, by id
    quizzes,      \* quizzes table, by id
    assignments,  \* assignments table, by id
    submissions,  \* submissions table, by id
    enrollments,  \* enrollments table, by <<user_id, course_id>>
    nextId,       \* the serial id sequence of each table
    now,          \* the clock (CURRENT_TIMESTAMP, new Date())
    resp,         \* the last request and its response
    inflight      \* the requests between their reads and their write, by connection

vars == <<users, courses, categories, modules, lessons, quizzes, assignments,
          submissions, enrollments, nextId, now, resp, inflight>>

tables == <<users, courses, categories, modules, lessons, quizzes, assignments,
            submissions, enrollments, nextId>>

-----------------------------------------------------------------------------
(* Values *)

NULL == -1

STUDENT == "student"
INSTRUCTOR == "instructor"
ADMIN == "admin"

OK == 200
CREATED == 201
BAD_REQUEST == 400
FORBIDDEN == 403
NOT_FOUND == 404
CONFLICT == 409

\* The bounds of the model.
MaxTime == 1          \* the clock runs over 0..MaxTime
MaxSubmissions == 2   \* submissions.id is drawn from a serial capped here

Exists(table, id) == id \in DOMAIN table

\* table with row id set to r (INSERT or UPDATE ... WHERE id = id)
Put(table, id, r) == [i \in DOMAIN table \cup {id} |-> IF i = id THEN r ELSE table[i]]

\* table without row id (DELETE ... WHERE id = id)
Del(table, id) == [i \in DOMAIN table \ {id} |-> table[i]]

-----------------------------------------------------------------------------
(* The ancestor chain of an entity, as the controllers' JOINs resolve it *)

CourseOfModule(m) == modules[m].course_id
CourseOfLesson(l) == CourseOfModule(lessons[l].module_id)
CourseOfAssignment(a) == CourseOfLesson(assignments[a].lesson_id)
CourseOfQuiz(q) == CourseOfLesson(quizzes[q].lesson_id)
CourseOfSubmission(s) == CourseOfAssignment(submissions[s].assignment_id)

\* JOIN lessons JOIN modules JOIN courses: the row is there only if each parent is
ModuleJoins(m) == Exists(modules, m) /\ Exists(courses, modules[m].course_id)
LessonJoins(l) == Exists(lessons, l) /\ ModuleJoins(lessons[l].module_id)
AssignmentJoins(a) == Exists(assignments, a) /\ LessonJoins(assignments[a].lesson_id)
QuizJoins(q) == Exists(quizzes, q) /\ LessonJoins(quizzes[q].lesson_id)
SubmissionJoins(s) == Exists(submissions, s) /\ AssignmentJoins(submissions[s].assignment_id)

\* ... WHERE c.is_deleted = FALSE
AssignmentVisible(a) == AssignmentJoins(a) /\ ~courses[CourseOfAssignment(a)].is_deleted
SubmissionVisible(s) == SubmissionJoins(s) /\ ~courses[CourseOfSubmission(s)].is_deleted

-----------------------------------------------------------------------------
(* Middleware *)

\* A role gate that lets every admin through.
authorize_AdminPasses(roles, u) == users[u] = ADMIN \/ users[u] \in roles

\* authorize(...roles): the route's role gate
authorize(roles, u) == users[u] \in roles

\* user.role !== ADMIN && row.instructor_id !== user.id  =>  403
OwnerOrAdmin(u, instructor_id) == users[u] = ADMIN \/ instructor_id = u

-----------------------------------------------------------------------------
(* Requests and responses *)

NoBody == [none |-> TRUE]

\* an empty table, an empty result set
NoRows == [i \in {} |-> NoBody]

Response(op, u, id, req, status, body) ==
    [op |-> op, user |-> u, id |-> id, req |-> req, status |-> status, body |-> body]

-----------------------------------------------------------------------------
(* Submissions: submit, update, delete, grade, bulk grade *)

\* JavaScript truthiness of a stored is_late ("true", "false" or "null")
Truthy(b) == b = "true"

\* isDatePast(date): new Date(date) < new Date()
isDatePast(date) == date < now

\* const isLate = assignment.due_date && isDatePast(assignment.due_date):
\* null when there is no due date, else the boolean
IsLateNow(due_date) ==
    IF due_date = NULL THEN "null" ELSE IF isDatePast(due_date) THEN "true" ELSE "false"

\* SELECT id FROM submissions WHERE assignment_id = $1 AND student_id = $2
ExistingSubmissions(a, u) ==
    {s \in DOMAIN submissions :
        submissions[s].assignment_id = a /\ submissions[s].student_id = u}

\* !content && !file_path
NoContent(content, file_path) == content = "" /\ file_path = ""

\* The duplicate check left out.
submitAssignmentStatus_NoDuplicateCheck(u, a, content, file_path) ==
    IF ~authorize({STUDENT}, u) THEN FORBIDDEN
    ELSE IF ~AssignmentVisible(a) THEN NOT_FOUND
    ELSE IF Truthy(IsLateNow(assignments[a].due_date))
            /\ ~assignments[a].allow_late_submission THEN BAD_REQUEST
    ELSE IF NoContent(content, file_path) THEN BAD_REQUEST
    ELSE CREATED

submitAssignmentStatus(u, a, content, file_path) ==
    IF ~authorize({STUDENT}, u) THEN FORBIDDEN
    ELSE IF ~AssignmentVisible(a) THEN NOT_FOUND
    ELSE IF Truthy(IsLateNow(assignments[a].due_date))
            /\ ~assignments[a].allow_late_submission THEN BAD_REQUEST
    ELSE IF ExistingSubmissions(a, u) # {} THEN CONFLICT
    ELSE IF NoContent(content, file_path) THEN BAD_REQUEST
    ELSE CREATED

NewSubmission(u, a, content, file_path) ==
    [assignment_id |-> a, student_id |-> u, content |-> content,
     file_path |-> file_path, is_late |-> IsLateNow(assignments[a].due_date),
     grade |-> NULL, feedback |-> "",
     graded_at |-> NULL, graded_by |-> NULL]

\* POST /submissions/assignment/:assignment_id
SubmitAssignment(u, a, content, file_path) ==
    LET status == submitAssignmentStatus(u, a, content, file_path)
        id == nextId.submissions
        req == [content |-> content, file_path |-> file_path]
    IN  /\ status = CREATED => id <= MaxSubmissions
        /\ IF status = CREATED
           THEN /\ submissions' = Put(submissions, id, NewSubmission(u, a, content, file_path))
                /\ nextId' = [nextId EXCEPT !.submissions = id + 1]
                /\ resp' = Response("submitAssignment", u, a, req, status,
                                    [id |-> id, is_late |-> IsLateNow(assignments[a].due_date)])
           ELSE /\ UNCHANGED <<submissions, nextId>>
                /\ resp' = Response("submitAssignment", u, a, req, status, NoBody)
        /\ UNCHANGED <<users, courses, categories, modules, lessons, quizzes,
                       assignments, enrollments, now, inflight>>

updateSubmissionStatus(u, id, content, file_path) ==
    IF ~authorize({STUDENT}, u) THEN FORBIDDEN
    \* ... WHERE s.id = $1 AND s.student_id = $2 AND c.is_deleted = FALSE
    ELSE IF ~(SubmissionVisible(id) /\ submissions[id].student_id = u) THEN NOT_FOUND
    ELSE IF submissions[id].grade # NULL THEN BAD_REQUEST
    ELSE IF Truthy(IsLateNow(assignments[submissions[id].assignment_id].due_date))
            /\ ~assignments[submissions[id].assignment_id].allow_late_submission
         THEN BAD_REQUEST
    ELSE IF NoContent(content, file_path) THEN BAD_REQUEST
    ELSE OK

\* PUT /submissions/:id
UpdateSubmission(u, id, content, file_path) ==
    LET status == updateSubmissionStatus(u, id, content, file_path)
        req == [content |-> content, file_path |-> file_path]
    IN  /\ IF status = OK
           THEN LET isLate == IsLateNow(assignments[submissions[id].assignment_id].due_date)
                IN  /\ submissions' = Put(submissions, id,
                            [submissions[id] EXCEPT !.content = content,
                                                    !.file_path = file_path,
                                                    !.is_late = isLate])
                    /\ resp' = Response("updateSubmission", u, id, req, status,
                                        [id |-> id, is_late |-> isLate])
           ELSE /\ UNCHANGED submissions
                /\ resp' = Response("updateSubmission", u, id, req, status, NoBody)
        /\ UNCHANGED <<users, courses, categories, modules, lessons, quizzes,
                       assignments, enrollments, nextId, now, inflight>>

deleteSubmissionStatus(u, id) ==
    IF ~authorize({STUDENT}, u) THEN FORBIDDEN
    \* SELECT ... FROM submissions s JOIN assignments a ... WHERE s.id = $1 AND s.student_id = $2
    ELSE IF ~(/\ Exists(submissions, id)
              /\ Exists(assignments, submissions[id].assignment_id)
              /\ submissions[id].student_id = u) THEN NOT_FOUND
    ELSE IF submissions[id].grade # NULL THEN BAD_REQUEST
    ELSE OK

\* The DELETE issued as soon as the student's own row is found, before the
\* test of its grade.
DeleteSubmission_DeletesFirst(u, id) ==
    LET status == deleteSubmissionStatus(u, id)
    IN  /\ submissions' = IF status \in {OK, BAD_REQUEST} THEN Del(submissions, id)
                          ELSE submissions
        /\ resp' = Response("deleteSubmission", u, id, NoBody, status, NoBody)
        /\ UNCHANGED <<users, courses, categories, modules, lessons, quizzes,
                       assignments, enrollments, nextId, now, inflight>>

\* DELETE /submissions/:id
DeleteSubmission(u, id) ==
    LET status == deleteSubmissionStatus(u, id)
    IN  /\ submissions' = IF status = OK THEN Del(submissions, id) ELSE submissions
        /\ resp' = Response("deleteSubmission", u, id, NoBody, status, NoBody)
        /\ UNCHANGED <<users, courses, categories, modules, lessons, quizzes,
                       assignments, enrollments, nextId, now, inflight>>

\* The test of the student's own id left out of getSubmissionByIdController.
getSubmissionByIdStatus_AnyStudent(u, id) ==
    IF ~SubmissionVisible(id) THEN NOT_FOUND
    ELSE IF users[u] = INSTRUCTOR /\ courses[CourseOfSubmission(id)].instructor_id # u
         THEN FORBIDDEN
    ELSE OK

getSubmissionByIdStatus(u, id) ==
    IF ~SubmissionVisible(id) THEN NOT_FOUND
    ELSE IF users[u] = STUDENT /\ submissions[id].student_id # u THEN FORBIDDEN
    ELSE IF users[u] = INSTRUCTOR /\ courses[CourseOfSubmission(id)].instructor_id # u
         THEN FORBIDDEN
    ELSE OK

\* GET /submissions/:id
GetSubmissionById(u, id) ==
    LET status == getSubmissionByIdStatus(u, id)
    IN  /\ resp' = Response("getSubmissionById", u, id, NoBody, status,
                            IF status = OK THEN submissions[id] ELSE NoBody)
        /\ UNCHANGED <<tables, now, inflight>>

-----------------------------------------------------------------------------
(* Grading *)

\* body('grade').isFloat({ min: 0, max: 100 })
ValidatorMaxGrade == 100

validateSubmissionGrading(grade) == grade >= 0 /\ grade <= ValidatorMaxGrade

\* grade < 0 || grade > submission.max_points  =>  400
GradeInRange(grade, max_points) == ~(grade < 0 \/ grade > max_points)

\* grade * (1 - latePenalty / 100), in hundredths of a point
Penalized(grade, latePenalty) == grade * (100 - latePenalty)

\* The late penalty left out.
FinalGrade_NoPenalty(grade, is_late, late_penalty_percent) == grade * 100

\* gradeSubmissionController: let finalGrade = grade; if (submission.is_late) { ... }
FinalGrade(grade, is_late, late_penalty_percent) ==
    IF Truthy(is_late) THEN Penalized(grade, late_penalty_percent) ELSE grade * 100

\* bulkGradeSubmissionsController: if (isLate && assignment.late_penalty_percent) { ... }
BulkFinalGrade(grade, is_late, late_penalty_percent) ==
    IF Truthy(is_late) /\ late_penalty_percent # 0
    THEN Penalized(grade, late_penalty_percent) ELSE grade * 100

\* The penalty taken once more from the grade of a late submission that
\* already holds a grade.
Graded_PenaltyAgain(sub, finalGrade, feedback, u) ==
    LET pen == assignments[sub.assignment_id].late_penalty_percent
    IN  [sub EXCEPT !.grade = IF Truthy(sub.is_late) /\ sub.grade # NULL
                               THEN (finalGrade * (100 - pen)) \div 100
                               ELSE finalGrade,
                    !.feedback = feedback, !.graded_at = now, !.graded_by = u]

\* The UPDATE keeping the grader a graded submission has.
Graded_FirstGraderStays(sub, finalGrade, feedback, u) ==
    [sub EXCEPT !.grade = finalGrade, !.feedback = feedback, !.graded_at = now,
                !.graded_by = IF sub.graded_by = NULL THEN u ELSE sub.graded_by]

\* UPDATE submissions SET grade, feedback, graded_at = CURRENT_TIMESTAMP, graded_by
Graded(sub, finalGrade, feedback, u) ==
    [sub EXCEPT !.grade = finalGrade, !.feedback = feedback,
                !.graded_at = now, !.graded_by = u]

gradeSubmissionStatus(u, id, grade) ==
    IF ~authorize({INSTRUCTOR, ADMIN}, u) THEN FORBIDDEN
    ELSE IF ~validateSubmissionGrading(grade) THEN BAD_REQUEST
    ELSE IF ~SubmissionVisible(id) THEN NOT_FOUND
    ELSE IF ~OwnerOrAdmin(u, courses[CourseOfSubmission(id)].instructor_id) THEN FORBIDDEN
    ELSE IF ~GradeInRange(grade, assignments[submissions[id].assignment_id].max_points)
         THEN BAD_REQUEST
    ELSE OK

\* PUT /submissions/:id/grade
GradeSubmission(u, id, grade, feedback) ==
    LET status == gradeSubmissionStatus(u, id, grade)
        req == [grade |-> grade, feedback |-> feedback]
    IN  /\ IF status = OK
           THEN LET sub == submissions[id]
                    finalGrade == FinalGrade(grade, sub.is_late,
                                    assignments[sub.assignment_id].late_penalty_percent)
                IN  /\ submissions' = Put(submissions, id, Graded(sub, finalGrade, feedback, u))
                    /\ resp' = Response("gradeSubmission", u, id, req, status,
                                  [grade |-> finalGrade, originalGrade |-> grade,
                                   finalGrade |-> finalGrade,
                                   latePenaltyApplied |-> sub.is_late, graded_by |-> u])
           ELSE /\ UNCHANGED submissions
                /\ resp' = Response("gradeSubmission", u, id, req, status, NoBody)
        /\ UNCHANGED <<users, courses, categories, modules, lessons, quizzes,
                       assignments, enrollments, nextId, now, inflight>>

\* One item of the bulk-grade loop, on the submissions table subs:
\* "error" when the grade is out of range or the submission is not one of the
\* assignment's, else the graded table.
BulkItemOk(subs, a, item) ==
    /\ GradeInRange(item.grade, assignments[a].max_points)
    /\ item.submissionId \in DOMAIN subs
    /\ subs[item.submissionId].assignment_id = a

BulkItemGrade(subs, a, item) ==
    BulkFinalGrade(item.grade, subs[item.submissionId].is_late,
                   assignments[a].late_penalty_percent)

\* a submissionId that is not the text of an integer, such as "x": the SELECT
\* that takes it as $1 for the integer column id fails (error 22P02)
NotAnInteger == -3

RECURSIVE BulkLoop(_, _, _, _, _)
\* for (const gradeData of grades) { ... }: the table, results and errors after
\* the loop.  The loop runs between BEGIN and COMMIT on one client: once a
\* statement has failed the transaction is aborted, every later statement
\* fails too (error 25P02), and the inner catch records each as an error.
BulkLoop(subs, a, u, grades, acc) ==
    IF grades = << >> THEN [subs |-> subs, results |-> acc.results, errors |-> acc.errors,
                            aborted |-> acc.aborted]
    ELSE LET item == Head(grades)
         IN  IF ~acc.aborted /\ BulkItemOk(subs, a, item)
             THEN LET fg == BulkItemGrade(subs, a, item)
                  IN  BulkLoop(Put(subs, item.submissionId,
                                   Graded(subs[item.submissionId], fg, item.feedback, u)),
                               a, u, Tail(grades),
                               [results |-> Append(acc.results,
                                    [submissionId |-> item.submissionId,
                                     originalGrade |-> item.grade, finalGrade |-> fg,
                                     latePenaltyApplied |-> subs[item.submissionId].is_late]),
                                errors |-> acc.errors, aborted |-> FALSE])
             ELSE BulkLoop(subs, a, u, Tail(grades),
                           [results |-> acc.results,
                            errors |-> Append(acc.errors, item.submissionId),
                            aborted |-> \/ acc.aborted
                                        \/ /\ GradeInRange(item.grade, assignments[a].max_points)
                                           /\ item.submissionId = NotAnInteger])

bulkGradeStatus(u, a, grades) ==
    IF ~authorize({INSTRUCTOR, ADMIN}, u) THEN FORBIDDEN
    ELSE IF Len(grades) = 0 THEN BAD_REQUEST
    ELSE IF ~AssignmentVisible(a) THEN NOT_FOUND
    ELSE IF ~OwnerOrAdmin(u, courses[CourseOfAssignment(a)].instructor_id) THEN FORBIDDEN
    ELSE OK

\* POST /submissions/assignment/:assignment_id/bulk-grade
BulkGradeSubmissions(u, a, grades) ==
    LET status == bulkGradeStatus(u, a, grades)
    IN  /\ IF status = OK
           THEN LET out == BulkLoop(submissions, a, u, grades,
                                    [results |-> << >>, errors |-> << >>, aborted |-> FALSE])
                \* COMMIT ends an aborted transaction by rolling it back, with no error
                IN  /\ submissions' = IF out.aborted THEN submissions ELSE out.subs
                    /\ resp' = Response("bulkGrade", u, a, grades, status,
                                        [results |-> out.results, errors |-> out.errors])
           ELSE /\ UNCHANGED submissions
                /\ resp' = Response("bulkGrade", u, a, grades, status, NoBody)
        /\ UNCHANGED <<users, courses, categories, modules, lessons, quizzes,
                       assignments, enrollments, nextId, now, inflight>>

\* Time passes between requests.
Tick ==
    /\ now < MaxTime
    /\ now' = now + 1
    /\ UNCHANGED <<users, courses, categories, modules, lessons, quizzes,
                   assignments, submissions, enrollments, nextId, resp, inflight>>

-----------------------------------------------------------------------------
(* Requests in flight.  A controller awaits each of its queries, and the
   store serves the queries of other connections in between.  A request that
   has passed its reads and its checks waits in inflight, keyed by its
   connection p, until its write.  The reads and the checks of a controller
   are one step here and its write is another; the rows the reads look at
   twice (the assignment of a submit or a grade request) are written by no
   request of the specification that runs these steps. *)

\* updateSubmissionController, up to its UPDATE
UpdateSubmissionBegin(p, u, id, content, file_path) ==
    LET status == updateSubmissionStatus(u, id, content, file_path)
        req == [content |-> content, file_path |-> file_path]
    IN  /\ p \notin DOMAIN inflight
        /\ IF status = OK
           THEN /\ inflight' = Put(inflight, p,
                      [op |-> "updateSubmission", user |-> u, id |-> id, req |-> req,
                       isLate |-> IsLateNow(assignments[submissions[id].assignment_id].due_date)])
                /\ UNCHANGED resp
           ELSE /\ resp' = Response("updateSubmission", u, id, req, status, NoBody)
                /\ UNCHANGED inflight
        /\ UNCHANGED <<tables, now>>

\* UPDATE submissions SET content, file_path, is_late ... WHERE id = $4 RETURNING ...
UpdateSubmissionEnd(p) ==
    /\ p \in DOMAIN inflight /\ inflight[p].op = "updateSubmission"
    /\ LET r == inflight[p]
       IN  IF Exists(submissions, r.id)
           THEN /\ submissions' = Put(submissions, r.id,
                       [submissions[r.id] EXCEPT !.content = r.req.content,
                                                 !.file_path = r.req.file_path,
                                                 !.is_late = r.isLate])
                /\ resp' = Response(r.op, r.user, r.id, r.req, OK,
                                    [id |-> r.id, is_late |-> r.isLate])
           ELSE /\ UNCHANGED submissions
                /\ resp' = Response(r.op, r.user, r.id, r.req, OK, NoBody)
    /\ inflight' = Del(inflight, p)
    /\ UNCHANGED <<users, courses, categories, modules, lessons, quizzes,
                   assignments, enrollments, nextId, now>>

\* gradeSubmissionController, up to its UPDATE
GradeSubmissionBegin(p, u, id, grade, feedback) ==
    LET status == gradeSubmissionStatus(u, id, grade)
        req == [grade |-> grade, feedback |-> feedback]
    IN  /\ p \notin DOMAIN inflight
        /\ IF status = OK
           THEN /\ inflight' = Put(inflight, p,
                      [op |-> "gradeSubmission", user |-> u, id |-> id, req |-> req,
                       is_late |-> submissions[id].is_late,
                       finalGrade |-> FinalGrade(grade, submissions[id].is_late,
                           assignments[submissions[id].assignment_id].late_penalty_percent)])
                /\ UNCHANGED resp
           ELSE /\ resp' = Response("gradeSubmission", u, id, req, status, NoBody)
                /\ UNCHANGED inflight
        /\ UNCHANGED <<tables, now>>

\* UPDATE submissions SET grade, feedback, graded_at, graded_by WHERE id = $4 RETURNING ...
GradeSubmissionEnd(p) ==
    /\ p \in DOMAIN inflight /\ inflight[p].op = "gradeSubmission"
    /\ LET r == inflight[p]
       IN  /\ submissions' =
                 IF Exists(submissions, r.id)
                 THEN Put(submissions, r.id,
                          Graded(submissions[r.id], r.finalGrade, r.req.feedback, r.user))
                 ELSE submissions
           /\ resp' = Response(r.op, r.user, r.id, r.req, OK,
                               [grade |-> r.finalGrade, originalGrade |-> r.req.grade,
                                finalGrade |-> r.finalGrade,
                                latePenaltyApplied |-> r.is_late, graded_by |-> r.user])
    /\ inflight' = Del(inflight, p)
    /\ UNCHANGED <<users, courses, categories, modules, lessons, quizzes,
                   assignments, enrollments, nextId, now>>

\* submitAssignmentController, up to its INSERT
SubmitAssignmentBegin(p, u, a, content, file_path) ==
    LET status == submitAssignmentStatus(u, a, content, file_path)
        req == [content |-> content, file_path |-> file_path]
    IN  /\ p \notin DOMAIN inflight
        /\ IF status = CREATED
           THEN /\ inflight' = Put(inflight, p,
                      [op |-> "submitAssignment", user |-> u, id |-> a, req |-> req,
                       row |-> NewSubmission(u, a, content, file_path)])
                /\ UNCHANGED resp
           ELSE /\ resp' = Response("submitAssignment", u, a, req, status, NoBody)
                /\ UNCHANGED inflight
        /\ UNCHANGED <<tables, now>>

\* INSERT INTO submissions ... RETURNING ...  The schema is not part of the
\* sources: the table may or may not have a unique constraint on
\* (assignment_id, student_id).  With one, the INSERT of a second row fails
\* (error 23505, which the error handler answers 400) after it has drawn its
\* serial.
SubmitAssignmentEnd(p) ==
    /\ p \in DOMAIN inflight /\ inflight[p].op = "submitAssignment"
    /\ nextId.submissions <= MaxSubmissions
    /\ LET r == inflight[p]
           id == nextId.submissions
       IN  \E unique \in BOOLEAN :
              IF unique /\ ExistingSubmissions(r.id, r.user) # {}
              THEN /\ UNCHANGED submissions
                   /\ resp' = Response(r.op, r.user, r.id, r.req, BAD_REQUEST, NoBody)
              ELSE /\ submissions' = Put(submissions, id, r.row)
                   /\ resp' = Response(r.op, r.user, r.id, r.req, CREATED,
                                       [id |-> id, is_late |-> r.row.is_late])
    /\ nextId' = [nextId EXCEPT !.submissions = @ + 1]
    /\ inflight' = Del(inflight, p)
    /\ UNCHANGED <<users, courses, categories, modules, lessons, quizzes,
                   assignments, enrollments, now>>

-----------------------------------------------------------------------------
(* Strings.  The model's strings are the few the requests below carry;
   toLowerCase and trim are tabulated on them. *)

\* String.prototype.toLowerCase, SQL LOWER
toLowerCase(s) ==
    CASE s = "True" -> "true"
      [] s = "False" -> "false"
      [] s = "Paris" -> "paris"
      [] s = " Paris " -> " paris "
      [] s = "Intro" -> "intro"
      [] s = "Basics" -> "basics"
      [] s = "A" -> "a"
      [] s = "B" -> "b"
      [] s = "C" -> "c"
      [] OTHER -> s

\* String.prototype.trim
trim(s) ==
    CASE s = " Paris " -> "Paris"
      [] s = " paris " -> "paris"
      [] s = " " -> ""
      [] OTHER -> s

-----------------------------------------------------------------------------
(* Course content: modules, lessons, quizzes, assignments.  A create request
   carries the parent's id and the new row's fields; an update request
   carries one field, or none. *)

MaxSerials == 11   \* the serials of the four content tables sum to at most this

SerialsUsed == nextId.modules + nextId.lessons + nextId.quizzes + nextId.assignments

\* getCourseById: ... WHERE c.id = $1 AND c.is_deleted = false
CourseVisible(c) == Exists(courses, c) /\ ~courses[c].is_deleted

\* getModuleWithCourse, getLessonWithCourseInfo, getQuizById: ... AND c.is_deleted = FALSE
ModuleVisible(m) == ModuleJoins(m) /\ ~courses[CourseOfModule(m)].is_deleted
LessonVisible(l) == LessonJoins(l) /\ ~courses[CourseOfLesson(l)].is_deleted
QuizVisible(q) == QuizJoins(q) /\ ~courses[CourseOfQuiz(q)].is_deleted

\* SELECT id FROM modules WHERE LOWER(title) = LOWER($1) AND course_id = $2 [AND id != $3]
moduleTitleExistsInCourse(title, course_id, excludeId) ==
    \E m \in DOMAIN modules :
        /\ toLowerCase(modules[m].title) = toLowerCase(title)
        /\ modules[m].course_id = course_id
        /\ m # excludeId

\* SELECT id FROM lessons WHERE LOWER(title) = LOWER($1) AND module_id = $2 [AND id != $3]
lessonTitleExistsInModule(title, module_id, excludeId) ==
    \E l \in DOMAIN lessons :
        /\ toLowerCase(lessons[l].title) = toLowerCase(title)
        /\ lessons[l].module_id = module_id
        /\ l # excludeId

\* A response that carries no more than its status.
Answer(op, u, id, req, status) == resp' = Response(op, u, id, req, status, NoBody)

createModuleStatus(u, course_id, title) ==
    IF ~authorize({INSTRUCTOR, ADMIN}, u) THEN FORBIDDEN
    ELSE IF ~CourseVisible(course_id) THEN NOT_FOUND
    ELSE IF ~OwnerOrAdmin(u, courses[course_id].instructor_id) THEN FORBIDDEN
    ELSE IF moduleTitleExistsInCourse(title, course_id, NULL) THEN CONFLICT
    ELSE CREATED

\* POST /modules
CreateModule(u, course_id, title) ==
    LET status == createModuleStatus(u, course_id, title)
        id == nextId.modules
    IN  /\ status = CREATED => SerialsUsed < MaxSerials
        /\ IF status = CREATED
           THEN /\ modules' = Put(modules, id, [course_id |-> course_id,
                                    title |-> trim(title), is_published |-> TRUE])
                /\ nextId' = [nextId EXCEPT !.modules = id + 1]
           ELSE UNCHANGED <<modules, nextId>>
        /\ Answer("createModule", u, course_id, [title |-> title], status)
        /\ UNCHANGED <<users, courses, categories, lessons, quizzes, assignments,
                       submissions, enrollments, now, inflight>>

updateModuleStatus(u, id, title) ==
    IF ~ModuleVisible(id) THEN NOT_FOUND
    ELSE IF ~OwnerOrAdmin(u, courses[CourseOfModule(id)].instructor_id) THEN FORBIDDEN
    ELSE IF title # "" /\ moduleTitleExistsInCourse(title, modules[id].course_id, id)
         THEN CONFLICT
    ELSE IF title = "" THEN BAD_REQUEST
    ELSE OK

\* PUT /modules/:id
UpdateModule(u, id, title) ==
    LET status == updateModuleStatus(u, id, title)
    IN  /\ modules' = IF status = OK
                      THEN Put(modules, id, [modules[id] EXCEPT !.title = trim(title)])
                      ELSE modules
        /\ Answer("updateModule", u, id, [title |-> title], status)
        /\ UNCHANGED <<users, courses, categories, lessons, quizzes, assignments,
                       submissions, enrollments, nextId, now, inflight>>

deleteModuleStatus(u, id) ==
    IF ~ModuleVisible(id) THEN NOT_FOUND
    ELSE IF ~OwnerOrAdmin(u, courses[CourseOfModule(id)].instructor_id) THEN FORBIDDEN
    \* SELECT COUNT(*) FROM lessons WHERE module_id = $1
    ELSE IF \E l \in DOMAIN lessons : lessons[l].module_id = id THEN CONFLICT
    ELSE OK

\* DELETE /modules/:id
DeleteModule(u, id) ==
    LET status == deleteModuleStatus(u, id)
    IN  /\ modules' = IF status = OK THEN Del(modules, id) ELSE modules
        /\ Answer("deleteModule", u, id, NoBody, status)
        /\ UNCHANGED <<users, courses, categories, lessons, quizzes, assignments,
                       submissions, enrollments, nextId, now, inflight>>

createLessonStatus(u, module_id, title) ==
    IF ~authorize({INSTRUCTOR, ADMIN}, u) THEN FORBIDDEN
    ELSE IF ~ModuleVisible(module_id) THEN NOT_FOUND
    ELSE IF ~OwnerOrAdmin(u, courses[CourseOfModule(module_id)].instructor_id) THEN FORBIDDEN
    ELSE IF lessonTitleExistsInModule(title, module_id, NULL) THEN CONFLICT
    ELSE CREATED

\* POST /lessons
CreateLesson(u, module_id, title) ==
    LET status == createLessonStatus(u, module_id, title)
        id == nextId.lessons
    IN  /\ status = CREATED => SerialsUsed < MaxSerials
        /\ IF status = CREATED
           THEN /\ lessons' = Put(lessons, id, [module_id |-> module_id,
                                    title |-> trim(title), is_published |-> TRUE])
                /\ nextId' = [nextId EXCEPT !.lessons = id + 1]
           ELSE UNCHANGED <<lessons, nextId>>
        /\ Answer("createLesson", u, module_id, [title |-> title], status)
        /\ UNCHANGED <<users, courses, categories, modules, quizzes, assignments,
                       submissions, enrollments, now, inflight>>

updateLessonStatus(u, id, title) ==
    IF ~LessonVisible(id) THEN NOT_FOUND
    ELSE IF ~OwnerOrAdmin(u, courses[CourseOfLesson(id)].instructor_id) THEN FORBIDDEN
    ELSE IF title # "" /\ lessonTitleExistsInModule(title, lessons[id].module_id, id)
         THEN CONFLICT
    ELSE IF title = "" THEN BAD_REQUEST
    ELSE OK

\* PUT /lessons/:id
UpdateLesson(u, id, title) ==
    LET status == updateLessonStatus(u, id, title)
    IN  /\ lessons' = IF status = OK
                      THEN Put(lessons, id, [lessons[id] EXCEPT !.title = trim(title)])
                      ELSE lessons
        /\ Answer("updateLesson", u, id, [title |-> title], status)
        /\ UNCHANGED <<users, courses, categories, modules, quizzes, assignments,
                       submissions, enrollments, nextId, now, inflight>>

\* The submissions of the assignments of lesson l: the rows a foreign key
\* from submissions to assignments would guard.
SubmissionsOfLesson(l) ==
    {s \in DOMAIN submissions :
        /\ Exists(assignments, submissions[s].assignment_id)
        /\ assignments[submissions[s].assignment_id].lesson_id = l}

\* What DELETE FROM assignments does to the submissions that reference the
\* deleted rows.  The schema is not part of the sources: the foreign key may
\* cascade, may refuse the delete (error 23503), or may not exist.
ForeignKeyRules == {"cascade", "restrict", "none"}

WithoutLesson(table, l) == [i \in {j \in DOMAIN table : table[j].lesson_id # l} |-> table[i]]

deleteLessonStatus(u, id) ==
    IF ~LessonVisible(id) THEN NOT_FOUND
    ELSE IF ~OwnerOrAdmin(u, courses[CourseOfLesson(id)].instructor_id) THEN FORBIDDEN
    ELSE OK

\* DELETE /lessons/:id.  deleteLesson deletes the lesson's quizzes and
\* assignments, then the lesson, in one transaction; a refused delete rolls
\* it back and is answered 400 by the error handler.  The DELETE FROM
\* assignments is refused when the foreign-key rule is restrict and a
\* submission references a deleted row.
DeleteLesson(u, id) ==
    LET status == deleteLessonStatus(u, id)
    IN  /\ IF status = OK
           THEN \E fk \in ForeignKeyRules :
                   IF SubmissionsOfLesson(id) # {} /\ fk = "restrict"
                   THEN /\ UNCHANGED <<lessons, quizzes, assignments, submissions>>
                        /\ Answer("deleteLesson", u, id, NoBody, BAD_REQUEST)
                   ELSE /\ quizzes' = WithoutLesson(quizzes, id)
                        /\ assignments' = WithoutLesson(assignments, id)
                        /\ lessons' = Del(lessons, id)
                        /\ submissions' =
                              IF fk = "cascade"
                              THEN [s \in DOMAIN submissions \ SubmissionsOfLesson(id)
                                       |-> submissions[s]]
                              ELSE submissions
                        /\ Answer("deleteLesson", u, id, NoBody, OK)
           ELSE /\ UNCHANGED <<lessons, quizzes, assignments, submissions>>
                /\ Answer("deleteLesson", u, id, NoBody, status)
        /\ UNCHANGED <<users, courses, categories, modules, enrollments, nextId, now, inflight>>

MULTIPLE_CHOICE == "multiple_choice"
TRUE_FALSE == "true_false"
TEXT == "text"
QUIZ_TYPES == {MULTIPLE_CHOICE, TRUE_FALSE, TEXT}

\* A request's options array; the empty sequence stands for a request
\* without options, and for a stored NULL.
NoOptions == << >>

\* isInt({ min: 1, max: 100 }) on points
MaxQuizPoints == 100

\* validateQuizCreation: the trimmed answer has 1 to 500 characters, the type
\* is one of the three, the points are an integer from 1 to 100
validateQuizCreation(quiz_type, answer, points) ==
    /\ trim(answer) # ""
    /\ quiz_type \in QUIZ_TYPES
    /\ points \in 1..MaxQuizPoints

createQuizStatus(u, lesson_id, quiz_type, answer, options, points) ==
    IF ~authorize({INSTRUCTOR, ADMIN}, u) THEN FORBIDDEN
    ELSE IF ~validateQuizCreation(quiz_type, answer, points) THEN BAD_REQUEST
    ELSE IF ~LessonVisible(lesson_id) THEN NOT_FOUND
    ELSE IF ~OwnerOrAdmin(u, courses[CourseOfLesson(lesson_id)].instructor_id) THEN FORBIDDEN
    ELSE IF quiz_type \notin QUIZ_TYPES THEN BAD_REQUEST
    ELSE IF quiz_type = MULTIPLE_CHOICE /\ options = NoOptions THEN BAD_REQUEST
    ELSE CREATED

Quiz(lesson_id, quiz_type, answer, options, points) ==
    [lesson_id |-> lesson_id, quiz_type |-> quiz_type, answer |-> answer,
     options |-> options, points |-> points]

\* POST /quizzes
CreateQuiz(u, lesson_id, quiz_type, answer, options, points) ==
    LET status == createQuizStatus(u, lesson_id, quiz_type, answer, options, points)
        id == nextId.quizzes
        req == [quiz_type |-> quiz_type, answer |-> answer, options |-> options,
                points |-> points]
    IN  /\ status = CREATED => SerialsUsed < MaxSerials
        /\ IF status = CREATED
           THEN /\ quizzes' = Put(quizzes, id,
                        Quiz(lesson_id, quiz_type, trim(answer),
                             IF quiz_type = MULTIPLE_CHOICE THEN options ELSE NoOptions,
                             points))
                /\ nextId' = [nextId EXCEPT !.quizzes = id + 1]
           ELSE UNCHANGED <<quizzes, nextId>>
        /\ Answer("createQuiz", u, lesson_id, req, status)
        /\ UNCHANGED <<users, courses, categories, modules, lessons, assignments,
                       submissions, enrollments, now, inflight>>

updateQuizStatus(u, id, answer) ==
    IF trim(answer) = "" THEN BAD_REQUEST
    ELSE IF ~QuizVisible(id) THEN NOT_FOUND
    ELSE IF ~OwnerOrAdmin(u, courses[CourseOfQuiz(id)].instructor_id) THEN FORBIDDEN
    ELSE OK

\* PUT /quizzes/:id
UpdateQuiz(u, id, answer) ==
    LET status == updateQuizStatus(u, id, answer)
    IN  /\ quizzes' = IF status = OK
                      THEN Put(quizzes, id, [quizzes[id] EXCEPT !.answer = trim(answer)])
                      ELSE quizzes
        /\ Answer("updateQuiz", u, id, [answer |-> answer], status)
        /\ UNCHANGED <<users, courses, categories, modules, lessons, assignments,
                       submissions, enrollments, nextId, now, inflight>>

deleteQuizStatus(u, id) ==
    IF ~QuizVisible(id) THEN NOT_FOUND
    ELSE IF ~OwnerOrAdmin(u, courses[CourseOfQuiz(id)].instructor_id) THEN FORBIDDEN
    ELSE OK

\* DELETE /quizzes/:id
DeleteQuiz(u, id) ==
    LET status == deleteQuizStatus(u, id)
    IN  /\ quizzes' = IF status = OK THEN Del(quizzes, id) ELSE quizzes
        /\ Answer("deleteQuiz", u, id, NoBody, status)
        /\ UNCHANGED <<users, courses, categories, modules, lessons, assignments,
                       submissions, enrollments, nextId, now, inflight>>

\* a field the request does not carry (undefined)
Undefined == -2

\* the route's authorize and validateAssignmentCreation (max_points an integer
\* from 1 to 1000, late_penalty_percent one from 0 to 100), then the controller
createAssignmentStatus(u, lesson_id, due_date, max_points, late_penalty) ==
    IF ~authorize({INSTRUCTOR, ADMIN}, u) THEN FORBIDDEN
    ELSE IF max_points \notin 1..1000 \/ late_penalty \notin 0..100 THEN BAD_REQUEST
    ELSE IF ~LessonVisible(lesson_id) THEN NOT_FOUND
    ELSE IF ~OwnerOrAdmin(u, courses[CourseOfLesson(lesson_id)].instructor_id) THEN FORBIDDEN
    ELSE IF due_date # NULL /\ isDatePast(due_date) THEN BAD_REQUEST
    ELSE CREATED

\* POST /assignments
CreateAssignment(u, lesson_id, due_date, max_points, allow_late, late_penalty) ==
    LET status == createAssignmentStatus(u, lesson_id, due_date, max_points, late_penalty)
        id == nextId.assignments
        row == [lesson_id |-> lesson_id, title |-> "t", due_date |-> due_date,
                max_points |-> max_points, allow_late_submission |-> allow_late,
                late_penalty_percent |-> late_penalty]
    IN  /\ status = CREATED => SerialsUsed < MaxSerials
        /\ IF status = CREATED
           THEN /\ assignments' = Put(assignments, id, row)
                /\ nextId' = [nextId EXCEPT !.assignments = id + 1]
           ELSE UNCHANGED <<assignments, nextId>>
        /\ Answer("createAssignment", u, lesson_id, [due_date |-> due_date], status)
        /\ UNCHANGED <<users, courses, categories, modules, lessons, quizzes,
                       submissions, enrollments, now, inflight>>

updateAssignmentStatus(u, id, due_date) ==
    IF ~AssignmentVisible(id) THEN NOT_FOUND
    ELSE IF ~OwnerOrAdmin(u, courses[CourseOfAssignment(id)].instructor_id) THEN FORBIDDEN
    ELSE IF due_date \notin {Undefined, NULL} /\ isDatePast(due_date) THEN BAD_REQUEST
    ELSE IF due_date = Undefined THEN BAD_REQUEST
    ELSE OK

\* PUT /assignments/:id
UpdateAssignment(u, id, due_date) ==
    LET status == updateAssignmentStatus(u, id, due_date)
    IN  /\ assignments' = IF status = OK
                          THEN Put(assignments, id,
                                   [assignments[id] EXCEPT !.due_date = due_date])
                          ELSE assignments
        /\ Answer("updateAssignment", u, id, [due_date |-> due_date], status)
        /\ UNCHANGED <<users, courses, categories, modules, lessons, quizzes,
                       submissions, enrollments, nextId, now, inflight>>

deleteAssignmentStatus(u, id) ==
    IF ~AssignmentVisible(id) THEN NOT_FOUND
    ELSE IF ~OwnerOrAdmin(u, courses[CourseOfAssignment(id)].instructor_id) THEN FORBIDDEN
    \* SELECT COUNT(*) FROM submissions WHERE assignment_id = $1
    ELSE IF \E s \in DOMAIN submissions : submissions[s].assignment_id = id THEN CONFLICT
    ELSE OK

\* DELETE /assignments/:id
DeleteAssignment(u, id) ==
    LET status == deleteAssignmentStatus(u, id)
    IN  /\ assignments' = IF status = OK THEN Del(assignments, id) ELSE assignments
        /\ Answer("deleteAssignment", u, id, NoBody, status)
        /\ UNCHANGED <<users, courses, categories, modules, lessons, quizzes,
                       submissions, enrollments, nextId, now, inflight>>

-----------------------------------------------------------------------------
(* Roles *)

promoteToInstructorStatus(u, id) ==
    IF ~authorize({ADMIN}, u) THEN FORBIDDEN
    ELSE IF ~Exists(users, id) THEN NOT_FOUND
    ELSE IF users[id] = INSTRUCTOR THEN BAD_REQUEST
    ELSE IF users[id] = ADMIN THEN BAD_REQUEST
    ELSE OK

\* PUT /users/:id/promote
PromoteToInstructor(u, id) ==
    LET status == promoteToInstructorStatus(u, id)
    IN  /\ users' = IF status = OK THEN [users EXCEPT ![id] = INSTRUCTOR] ELSE users
        /\ Answer("promoteToInstructor", u, id, NoBody, status)
        /\ UNCHANGED <<courses, categories, modules, lessons, quizzes, assignments,
                       submissions, enrollments, nextId, now, inflight>>

demoteToStudentStatus(u, id) ==
    IF ~authorize({ADMIN}, u) THEN FORBIDDEN
    ELSE IF ~Exists(users, id) THEN NOT_FOUND
    ELSE IF users[id] = STUDENT THEN BAD_REQUEST
    ELSE IF users[id] = ADMIN THEN BAD_REQUEST
    ELSE OK

\* PUT /users/:id/demote
DemoteToStudent(u, id) ==
    LET status == demoteToStudentStatus(u, id)
    IN  /\ users' = IF status = OK THEN [users EXCEPT ![id] = STUDENT] ELSE users
        /\ Answer("demoteToStudent", u, id, NoBody, status)
        /\ UNCHANGED <<courses, categories, modules, lessons, quizzes, assignments,
                       submissions, enrollments, nextId, now, inflight>>

-----------------------------------------------------------------------------
(* Quizzes as students see and take them.  An answers object maps quiz ids
   to strings; an id outside its domain is an answer not given. *)

\* SELECT ... FROM quizzes WHERE lesson_id = $1
QuizzesOfLesson(l) == {q \in DOMAIN quizzes : quizzes[q].lesson_id = l}

\* the columns getQuizQuestionsForStudent and getRandomQuizQuestions select
QuestionOnly(q) ==
    [options |-> quizzes[q].options, quiz_type |-> quizzes[q].quiz_type,
     points |-> quizzes[q].points]

\* getQuizzesByLesson, and the quizzes of getLessonById: answer is selected
getQuizzesByLesson(l) ==
    [q \in QuizzesOfLesson(l) |->
        [answer |-> quizzes[q].answer, options |-> quizzes[q].options,
         quiz_type |-> quizzes[q].quiz_type, points |-> quizzes[q].points]]

getQuizQuestionsForStudent(l) == [q \in QuizzesOfLesson(l) |-> QuestionOnly(q)]

\* ... WHERE m.course_id = $1 AND m.is_published = TRUE AND l.is_published = TRUE
\* (the limit is above the number of rows)
getRandomQuizQuestions(c) ==
    [q \in {r \in DOMAIN quizzes :
               /\ LessonJoins(quizzes[r].lesson_id)
               /\ CourseOfQuiz(r) = c
               /\ lessons[quizzes[r].lesson_id].is_published
               /\ modules[lessons[quizzes[r].lesson_id].module_id].is_published}
        |-> QuestionOnly(q)]

getQuizzesByLessonStatus(u, lesson_id, forStudent) ==
    IF ~LessonVisible(lesson_id) THEN NOT_FOUND
    ELSE IF forStudent /\ users[u] = STUDENT THEN OK
    ELSE IF users[u] = INSTRUCTOR /\ courses[CourseOfLesson(lesson_id)].instructor_id # u
         THEN FORBIDDEN
    ELSE OK

\* GET /quizzes/lesson/:lesson_id[?forStudent=true]
GetQuizzesByLesson(u, lesson_id, forStudent) ==
    LET status == getQuizzesByLessonStatus(u, lesson_id, forStudent)
        body == IF status # OK THEN NoBody
                ELSE IF forStudent /\ users[u] = STUDENT
                     THEN [quizzes |-> getQuizQuestionsForStudent(lesson_id)]
                     ELSE [quizzes |-> getQuizzesByLesson(lesson_id)]
    IN  /\ resp' = Response("getQuizzesByLesson", u, lesson_id,
                            [forStudent |-> forStudent], status, body)
        /\ UNCHANGED <<tables, now, inflight>>

getLessonByIdStatus(u, id) ==
    IF ~LessonJoins(id) THEN NOT_FOUND
    ELSE IF users[u] = STUDENT /\ ~lessons[id].is_published THEN FORBIDDEN
    ELSE IF users[u] = INSTRUCTOR /\ courses[CourseOfLesson(id)].instructor_id # u
         THEN FORBIDDEN
    ELSE OK

\* GET /lessons/:id[?includeAssessments=true]
GetLessonById(u, id, includeAssessments) ==
    LET status == getLessonByIdStatus(u, id)
        body == IF status # OK THEN NoBody
                ELSE IF includeAssessments
                     THEN [quizzes |-> getQuizzesByLesson(id)]
                     ELSE [quizzes |-> NoRows]
    IN  /\ resp' = Response("getLessonById", u, id,
                            [includeAssessments |-> includeAssessments], status, body)
        /\ UNCHANGED <<tables, now, inflight>>

\* GET /quizzes/course/:course_id/random
GetRandomQuizQuestions(u, course_id) ==
    LET status == IF ~CourseVisible(course_id) THEN NOT_FOUND ELSE OK
        body == IF status # OK THEN NoBody
                ELSE [quizzes |-> getRandomQuizQuestions(course_id)]
    IN  /\ resp' = Response("getRandomQuizQuestions", u, course_id, NoBody, status, body)
        /\ UNCHANGED <<tables, now, inflight>>

\* quiz.options.map(opt => opt.value || opt), the options being strings
validOptions(quiz) == {quiz.options[i] : i \in DOMAIN quiz.options}

\* The out-of-options test of validateQuizAnswers left out.
AnswerError_AnyOption(answers, q) ==
    LET quiz == quizzes[q]
    IN  IF q \notin DOMAIN answers \/ answers[q] = "" THEN TRUE
        ELSE CASE quiz.quiz_type = TRUE_FALSE -> answers[q] \notin {"true", "false"}
               [] quiz.quiz_type = TEXT -> trim(answers[q]) = ""
               [] OTHER -> FALSE

\* validateQuizAnswers pushes an error for quiz q
AnswerError(answers, q) ==
    LET quiz == quizzes[q]
    IN  IF q \notin DOMAIN answers \/ answers[q] = "" THEN TRUE
        ELSE CASE quiz.quiz_type = TRUE_FALSE -> answers[q] \notin {"true", "false"}
               [] quiz.quiz_type = MULTIPLE_CHOICE ->
                     Len(quiz.options) > 0 /\ answers[q] \notin validOptions(quiz)
               [] quiz.quiz_type = TEXT -> trim(answers[q]) = ""
               [] OTHER -> FALSE

\* The validation stopped at the first quiz in error.
validateQuizAnswers_FirstOnly(answers, qs) ==
    {q \in qs : AnswerError(answers, q) /\ \A r \in qs : AnswerError(answers, r) => q <= r}

\* validateQuizAnswers(answers, quizzes): the quizzes it reports an error for
validateQuizAnswers(answers, qs) == {q \in qs : AnswerError(answers, q)}

\* the switch of submitQuizAnswers
isCorrect(quiz, userAnswer) ==
    CASE quiz.quiz_type \in {MULTIPLE_CHOICE, TRUE_FALSE} ->
            toLowerCase(userAnswer) = toLowerCase(quiz.answer)
      [] quiz.quiz_type = TEXT ->
            trim(toLowerCase(userAnswer)) = trim(toLowerCase(quiz.answer))
      [] OTHER -> userAnswer = quiz.answer

RECURSIVE SumOver(_, _)
\* the sum of f over the set S
SumOver(S, f) ==
    IF S = {} THEN 0
    ELSE LET x == CHOOSE y \in S : TRUE IN f[x] + SumOver(S \ {x}, f)

\* The <<earnedPoints, totalPoints>>, totalPoints up to 200, whose exact
\* percentage ends in one half and whose percentage in IEEE 754 doubles,
\* (earnedPoints / totalPoints) * 100, lies just below it: 23 / 40 * 100 is
\* 57.49999999999999.  For every other pair up to 200 the double is on the
\* side of the half where the exact percentage is.
DoubleBelowHalf ==
    {<<23, 40>>, <<46, 80>>, <<69, 120>>, <<92, 160>>,
     <<29, 200>>, <<57, 200>>, <<113, 200>>, <<115, 200>>}

\* Math.round((earnedPoints / totalPoints) * 100): the double, rounded half up
Score(earnedPoints, totalPoints) ==
    IF totalPoints > 0
    THEN IF <<earnedPoints, totalPoints>> \in DoubleBelowHalf
         THEN (100 * earnedPoints) \div totalPoints
         ELSE (200 * earnedPoints + totalPoints) \div (2 * totalPoints)
    ELSE 0

\* submitQuizAnswers(lessonId, answers)
submitQuizAnswers(lesson_id, answers) ==
    LET qs == QuizzesOfLesson(lesson_id)
        right == [q \in qs |-> q \in DOMAIN answers /\ isCorrect(quizzes[q], answers[q])]
        results == [q \in qs |->
                      [correctAnswer |-> quizzes[q].answer, isCorrect |-> right[q],
                       points |-> IF right[q] THEN quizzes[q].points ELSE 0,
                       maxPoints |-> quizzes[q].points]]
        totalPoints == SumOver(qs, [q \in qs |-> quizzes[q].points])
        earnedPoints == SumOver(qs, [q \in qs |-> results[q].points])
    IN  [totalQuestions |-> Cardinality(qs), totalPoints |-> totalPoints,
         earnedPoints |-> earnedPoints, score |-> Score(earnedPoints, totalPoints),
         results |-> results]

\* the route's authorize(STUDENT), then the controller, which tests the role again
submitQuizAnswersStatus(u, lesson_id, answers) ==
    IF ~authorize({STUDENT}, u) THEN FORBIDDEN
    ELSE IF users[u] # STUDENT THEN FORBIDDEN
    ELSE IF ~LessonVisible(lesson_id) THEN NOT_FOUND
    ELSE IF QuizzesOfLesson(lesson_id) = {} THEN NOT_FOUND
    ELSE IF validateQuizAnswers(answers, QuizzesOfLesson(lesson_id)) # {} THEN BAD_REQUEST
    ELSE OK

\* POST /quizzes/lesson/:lesson_id/submit.  The message of the 400 that
\* follows validateQuizAnswers is its errors joined, one for each quiz it
\* reports: errors is the set of those quizzes.
SubmitQuizAnswers(u, lesson_id, answers) ==
    LET status == submitQuizAnswersStatus(u, lesson_id, answers)
        body == CASE status = OK -> submitQuizAnswers(lesson_id, answers)
                  [] status = BAD_REQUEST ->
                        [errors |-> validateQuizAnswers(answers, QuizzesOfLesson(lesson_id))]
                  [] OTHER -> NoBody
    IN  /\ resp' = Response("submitQuizAnswers", u, lesson_id, answers, status, body)
        /\ UNCHANGED <<tables, now, inflight>>

\* submitQuizAnswersController, up to its call of submitQuizAnswers: quizzes is
\* the result of getQuizzesByLesson, the rows validateQuizAnswers went through
SubmitQuizAnswersBegin(p, u, lesson_id, answers) ==
    LET status == submitQuizAnswersStatus(u, lesson_id, answers)
        body == IF status = BAD_REQUEST
                THEN [errors |-> validateQuizAnswers(answers, QuizzesOfLesson(lesson_id))]
                ELSE NoBody
    IN  /\ p \notin DOMAIN inflight
        /\ IF status = OK
           THEN /\ inflight' = Put(inflight, p,
                      [op |-> "submitQuizAnswers", user |-> u, id |-> lesson_id,
                       req |-> answers, quizzes |-> QuizzesOfLesson(lesson_id)])
                /\ UNCHANGED resp
           ELSE /\ resp' = Response("submitQuizAnswers", u, lesson_id, answers, status, body)
                /\ UNCHANGED inflight
        /\ UNCHANGED <<tables, now>>

\* submitQuizAnswers(lessonId, answers, user.id): BEGIN, its own SELECT of the
\* quizzes of the lesson, the grading, COMMIT; then the response
SubmitQuizAnswersEnd(p) ==
    /\ p \in DOMAIN inflight /\ inflight[p].op = "submitQuizAnswers"
    /\ LET r == inflight[p]
       IN  resp' = Response(r.op, r.user, r.id, r.req, OK, submitQuizAnswers(r.id, r.req))
    /\ inflight' = Del(inflight, p)
    /\ UNCHANGED <<tables, now>>

-----------------------------------------------------------------------------
(* Enrollments.  The user of a request is the requester (req.user.id), but
   for bulk enrollment, whose request names the users. *)

MaxEnrollments == 3   \* enrollments.id is drawn from a serial capped here

\* isFloat({ min: 0, max: 100 }) on progress, and the controller's own test
MaxProgress == 100

\* INSERT INTO enrollments (user_id, course_id): the other columns take the
\* table's defaults
NewEnrollment(u, course_id) ==
    [user_id |-> u, course_id |-> course_id,
     progress |-> 0, completed |-> FALSE, completed_at |-> NULL]

\* ... FROM enrollments WHERE user_id = $1 AND course_id = $2
EnrollmentsOf(u, course_id) ==
    {e \in DOMAIN enrollments :
        enrollments[e].user_id = u /\ enrollments[e].course_id = course_id}

\* An enrollment check that finds no row.
isUserEnrolled_Never(u, course_id) == FALSE

\* isUserEnrolled, getEnrollmentByUserAndCourse
isUserEnrolled(u, course_id) == EnrollmentsOf(u, course_id) # {}

enrollInCourseStatus(u, course_id) ==
    IF ~CourseVisible(course_id) THEN NOT_FOUND
    ELSE IF ~courses[course_id].is_published THEN BAD_REQUEST
    ELSE IF isUserEnrolled(u, course_id) THEN CONFLICT
    ELSE CREATED

\* POST /enrollments
EnrollInCourse(u, course_id) ==
    LET status == enrollInCourseStatus(u, course_id)
        id == nextId.enrollments
    IN  /\ status = CREATED => id <= MaxEnrollments
        /\ IF status = CREATED
           THEN /\ enrollments' = Put(enrollments, id, NewEnrollment(u, course_id))
                /\ nextId' = [nextId EXCEPT !.enrollments = id + 1]
           ELSE UNCHANGED <<enrollments, nextId>>
        /\ Answer("enrollInCourse", u, course_id, NoBody, status)
        /\ UNCHANGED <<users, courses, categories, modules, lessons, quizzes,
                       assignments, submissions, now, inflight>>

\* The late timestamp cleared only by a new completion.
updateEnrollmentProgress_KeepsCompletedAt(row, progress, t) ==
    [row EXCEPT !.progress = progress, !.completed = progress >= 100,
                !.completed_at = IF progress >= 100 THEN t ELSE row.completed_at]

\* updateEnrollmentProgress: the row after
\* SET progress = $1, completed = $2, completed_at = CURRENT_TIMESTAMP | NULL
updateEnrollmentProgress(row, progress, t) ==
    [row EXCEPT !.progress = progress, !.completed = progress >= 100,
                !.completed_at = IF progress >= 100 THEN t ELSE NULL]

\* The range of progress not tested.
updateProgressStatus_NoRange(u, course_id, progress) ==
    IF ~isUserEnrolled(u, course_id) THEN NOT_FOUND ELSE OK

\* the route's isFloat({ min: 0, max: 100 }), then the controller
updateProgressStatus(u, course_id, progress) ==
    IF progress < 0 \/ progress > MaxProgress THEN BAD_REQUEST
    ELSE IF ~isUserEnrolled(u, course_id) THEN NOT_FOUND
    ELSE OK

\* PUT /enrollments/course/:course_id/progress.  The UPDATE writes every row
\* WHERE user_id = $3 AND course_id = $4; the response is result.rows[0].
UpdateProgress(u, course_id, progress) ==
    LET status == updateProgressStatus(u, course_id, progress)
        req == [progress |-> progress]
    IN  /\ IF status = OK
           THEN /\ enrollments' =
                      [e \in DOMAIN enrollments |->
                          IF e \in EnrollmentsOf(u, course_id)
                          THEN updateEnrollmentProgress(enrollments[e], progress, now)
                          ELSE enrollments[e]]
                /\ \E e \in EnrollmentsOf(u, course_id) :
                      resp' = Response("updateProgress", u, course_id, req, status,
                                       enrollments'[e])
           ELSE /\ UNCHANGED enrollments
                /\ resp' = Response("updateProgress", u, course_id, req, status, NoBody)
        /\ UNCHANGED <<users, courses, categories, modules, lessons, quizzes,
                       assignments, submissions, nextId, now, inflight>>

unenrollFromCourseStatus(u, course_id) ==
    IF ~isUserEnrolled(u, course_id) THEN NOT_FOUND ELSE OK

\* DELETE /enrollments/course/:course_id:
\* DELETE FROM enrollments WHERE user_id = $1 AND course_id = $2
UnenrollFromCourse(u, course_id) ==
    LET status == unenrollFromCourseStatus(u, course_id)
    IN  /\ enrollments' =
              IF status = OK
              THEN [e \in DOMAIN enrollments \ EnrollmentsOf(u, course_id) |-> enrollments[e]]
              ELSE enrollments
        /\ Answer("unenrollFromCourse", u, course_id, NoBody, status)
        /\ UNCHANGED <<users, courses, categories, modules, lessons, quizzes,
                       assignments, submissions, nextId, now, inflight>>

RECURSIVE BulkEnrollLoop(_, _, _, _, _)
\* for (const userId of userIds) { ... }: the table, the serial, the ids of
\* the rows created and the users reported in errors, after the loop
BulkEnrollLoop(rows, serial, userIds, courseId, acc) ==
    IF userIds = << >>
    THEN [rows |-> rows, serial |-> serial, enrollments |-> acc.enrollments,
          errors |-> acc.errors]
    ELSE LET userId == Head(userIds)
             alreadyEnrolled == \E e \in DOMAIN rows :
                                   rows[e].user_id = userId /\ rows[e].course_id = courseId
         IN  IF alreadyEnrolled
             THEN BulkEnrollLoop(rows, serial, Tail(userIds), courseId,
                                 [acc EXCEPT !.errors = Append(@, userId)])
             ELSE BulkEnrollLoop(Put(rows, serial, NewEnrollment(userId, courseId)),
                                 serial + 1, Tail(userIds), courseId,
                                 [acc EXCEPT !.enrollments = Append(@, serial)])

\* the route's authorize(ADMIN) and isArray({ min: 1 }), then the controller
bulkEnrollUsersStatus(u, userIds, courseId) ==
    IF ~authorize({ADMIN}, u) THEN FORBIDDEN
    ELSE IF Len(userIds) = 0 THEN BAD_REQUEST
    ELSE IF ~CourseVisible(courseId) THEN NOT_FOUND
    ELSE OK

\* POST /enrollments/bulk
BulkEnrollUsers(u, userIds, courseId) ==
    LET status == bulkEnrollUsersStatus(u, userIds, courseId)
        out == BulkEnrollLoop(enrollments, nextId.enrollments, userIds, courseId,
                              [enrollments |-> << >>, errors |-> << >>])
    IN  /\ status = OK => out.serial <= MaxEnrollments + 1
        /\ IF status = OK
           THEN /\ enrollments' = out.rows
                /\ nextId' = [nextId EXCEPT !.enrollments = out.serial]
                /\ resp' = Response("bulkEnrollUsers", u, courseId, userIds, status,
                                    [enrollments |-> out.enrollments, errors |-> out.errors])
           ELSE /\ UNCHANGED <<enrollments, nextId>>
                /\ resp' = Response("bulkEnrollUsers", u, courseId, userIds, status, NoBody)
        /\ UNCHANGED <<users, courses, categories, modules, lessons, quizzes,
                       assignments, submissions, now, inflight>>

-----------------------------------------------------------------------------
(* Courses and categories *)

deleteCourseStatus(u, id) ==
    IF ~CourseVisible(id) THEN NOT_FOUND
    ELSE IF ~OwnerOrAdmin(u, courses[id].instructor_id) THEN FORBIDDEN
    ELSE OK

\* deleteCourseController: UPDATE courses SET is_deleted = true
DeleteCourse(u, id) ==
    LET status == deleteCourseStatus(u, id)
    IN  /\ courses' = IF status = OK
                      THEN Put(courses, id, [courses[id] EXCEPT !.is_deleted = TRUE])
                      ELSE courses
        /\ Answer("deleteCourse", u, id, NoBody, status)
        /\ UNCHANGED <<users, categories, modules, lessons, quizzes, assignments,
                       submissions, enrollments, nextId, now, inflight>>

\* the route's authorizeInstructor, then the controller
toggleCoursePublishStatusStatus(u, id) ==
    IF users[u] \notin {ADMIN, INSTRUCTOR} THEN FORBIDDEN
    ELSE IF ~CourseVisible(id) THEN NOT_FOUND
    ELSE IF ~OwnerOrAdmin(u, courses[id].instructor_id) THEN FORBIDDEN
    ELSE OK

\* PUT /courses/:id/publish.  The controller calls updateCourse(id,
\* { is_published: !course.is_published }), whose UPDATE sets title,
\* description, category_id, price, thumbnail, level and duration_weeks as
\* well, each from a field the object does not have: the parameter is NULL.
\* The schema is not part of the sources: when one of these columns is NOT
\* NULL the UPDATE fails (error 23502, which the error handler answers 400).
\* Of these columns the rows of the model carry category_id.
ToggleCoursePublishStatus(u, id) ==
    LET status == toggleCoursePublishStatusStatus(u, id)
    IN  /\ IF status = OK
           THEN \E notNull \in BOOLEAN :
                   IF notNull
                   THEN /\ UNCHANGED courses
                        /\ Answer("toggleCoursePublishStatus", u, id, NoBody, BAD_REQUEST)
                   ELSE /\ courses' = Put(courses, id,
                              [courses[id] EXCEPT !.category_id = NULL,
                                                  !.is_published = ~courses[id].is_published])
                        /\ Answer("toggleCoursePublishStatus", u, id, NoBody, OK)
           ELSE /\ UNCHANGED courses
                /\ Answer("toggleCoursePublishStatus", u, id, NoBody, status)
        /\ UNCHANGED <<users, categories, modules, lessons, quizzes, assignments,
                       submissions, enrollments, nextId, now, inflight>>

\* SELECT COUNT(*) FROM courses WHERE category_id = $1 AND is_deleted = FALSE
CoursesOfCategory(id) ==
    {c \in DOMAIN courses : courses[c].category_id = id /\ ~courses[c].is_deleted}

\* The course rows, soft-deleted ones included, that reference category id:
\* the rows a foreign key from courses to categories guards.
CourseRowsOfCategory(id) == {c \in DOMAIN courses : courses[c].category_id = id}

\* What DELETE FROM categories does when course rows reference the deleted
\* row.  The schema is not part of the sources: the foreign key may refuse the
\* delete (error 23503), may set the referencing column to NULL, or may not
\* exist.
CategoryKeyRules == {"restrict", "set null", "none"}

\* the route's authorize(ADMIN), then deleteCategory up to its DELETE
deleteCategoryStatus(u, id) ==
    IF ~authorize({ADMIN}, u) THEN FORBIDDEN
    ELSE IF CoursesOfCategory(id) # {} THEN CONFLICT
    ELSE IF id \notin categories THEN NOT_FOUND
    ELSE OK

\* DELETE /categories/:id.  A refused DELETE is an error without 'associated
\* courses' in its message, which the controller rethrows and the error
\* handler answers 400.
DeleteCategory(u, id) ==
    LET status == deleteCategoryStatus(u, id)
    IN  /\ IF status = OK
           THEN \E fk \in CategoryKeyRules :
                   IF CourseRowsOfCategory(id) # {} /\ fk = "restrict"
                   THEN /\ UNCHANGED <<categories, courses>>
                        /\ Answer("deleteCategory", u, id, NoBody, BAD_REQUEST)
                   ELSE /\ categories' = categories \ {id}
                        /\ courses' =
                              IF fk = "set null"
                              THEN [c \in DOMAIN courses |->
                                      IF c \in CourseRowsOfCategory(id)
                                      THEN [courses[c] EXCEPT !.category_id = NULL]
                                      ELSE courses[c]]
                              ELSE courses
                        /\ Answer("deleteCategory", u, id, NoBody, OK)
           ELSE /\ UNCHANGED <<categories, courses>>
                /\ Answer("deleteCategory", u, id, NoBody, status)
        /\ UNCHANGED <<users, modules, lessons, quizzes, assignments, submissions,
                       enrollments, nextId, now, inflight>>

-----------------------------------------------------------------------------
(* The fixed part of the initial database: two courses, each with one module
   and one lesson; course 1 belongs to instructor 2 and course 2 to instructor 3 *)

\* one admin, two instructors, two students
InitUsers ==
    [u \in 1..5 |-> IF u = 1 THEN ADMIN ELSE IF u \in {2, 3} THEN INSTRUCTOR ELSE STUDENT]

InitCourses ==
    [c \in {1, 2} |-> [instructor_id |-> c + 1, is_deleted |-> FALSE,
                       is_published |-> TRUE, category_id |-> 1]]

InitModules == [m \in {1, 2} |-> [course_id |-> m, title |-> "Intro", is_published |-> TRUE]]

InitLessons == [l \in {1, 2} |-> [module_id |-> l, title |-> "Intro", is_published |-> TRUE]]

Assignment(lesson_id, due_date, max_points, allow_late_submission, late_penalty_percent) ==
    [lesson_id |-> lesson_id, title |-> "t", due_date |-> due_date,
     max_points |-> max_points, allow_late_submission |-> allow_late_submission,
     late_penalty_percent |-> late_penalty_percent]

InitNextId ==
    [modules |-> 3, lessons |-> 3, quizzes |-> 1, assignments |-> 3,
     submissions |-> 1, categories |-> 2, enrollments |-> 1]

NoResponse == Response("none", NULL, NULL, NoBody, OK, NoBody)

-----------------------------------------------------------------------------
(* Spec: the life of a submission.  Both assignments are due at time 0;
   assignment 1 (course 1) takes late work at a penalty of 10 percent,
   assignment 2 (course 2, 150 points) takes none. *)

Init ==
    /\ users = InitUsers
    /\ courses = InitCourses
    /\ categories = {1}
    /\ modules = InitModules
    /\ lessons = InitLessons
    /\ quizzes = NoRows
    /\ assignments = [a \in {1, 2} |-> IF a = 1 THEN Assignment(1, 0, 100, TRUE, 10)
                                                  ELSE Assignment(2, 0, 150, FALSE, 20)]
    /\ submissions = NoRows
    /\ enrollments = NoRows
    /\ nextId = InitNextId
    /\ now = 0
    /\ resp = NoResponse
    /\ inflight = NoRows

\* Student 4 submits to both assignments; students 4 and 5 act on any
\* submission; instructors 2 and 3 grade.
Next ==
    \/ \E a \in {1, 2}, c \in {"", "a"} : SubmitAssignment(4, a, c, "")
    \/ \E u \in {4, 5}, id \in 1..MaxSubmissions, c \in {"", "b"} :
          UpdateSubmission(u, id, c, "")
    \/ \E u \in {4, 5}, id \in 1..MaxSubmissions : DeleteSubmission(u, id)
    \/ \E u \in {2, 3}, id \in 1..MaxSubmissions, g \in {80, 120} :
          GradeSubmission(u, id, g, "ok")
    \/ \E u \in {2, 3, 4, 5}, id \in 1..MaxSubmissions : GetSubmissionById(u, id)
    \/ Tick

Spec == Init /\ [][Next]_vars

-----------------------------------------------------------------------------
(* C4: a second submission for the same (assignment, student) *)

\* C4 as stated: when a submission exists for (assignment, student), a further
\* submit request of that student for that assignment fails with 409 Conflict
\* and creates no submission.
C4_SecondSubmitConflicts ==
    [][(/\ resp'.op = "submitAssignment"
        /\ SubmitAssignment(resp'.user, resp'.id, resp'.req.content, resp'.req.file_path)
        /\ ExistingSubmissions(resp'.id, resp'.user) # {})
       => (resp'.status = CONFLICT /\ submissions' = submissions)]_vars

\* C4 as amended: such a request always fails and creates no submission,
\* whether or not the first submission is graded; the error is 409 Conflict
\* when the request passes the checks that run first, and otherwise the error
\* of the first of them that fails: 403 (the requester is no student), 404
\* (the assignment's course is deleted), 400 (the deadline has passed and the
\* assignment takes no late work).
C4_SecondSubmitFails ==
    [][(/\ resp'.op = "submitAssignment"
        /\ SubmitAssignment(resp'.user, resp'.id, resp'.req.content, resp'.req.file_path)
        /\ ExistingSubmissions(resp'.id, resp'.user) # {})
       => LET a == resp'.id
              DeadlineClosed == /\ Truthy(IsLateNow(assignments[a].due_date))
                                /\ ~assignments[a].allow_late_submission
          IN  /\ submissions' = submissions
              /\ nextId' = nextId
              /\ resp'.status = IF ~authorize({STUDENT}, resp'.user) THEN FORBIDDEN
                                ELSE IF ~AssignmentVisible(a) THEN NOT_FOUND
                                ELSE IF DeadlineClosed THEN BAD_REQUEST
                                ELSE CONFLICT]_vars

\* A second submit was answered 409 while the first submission was graded.
C4_Witness ==
    /\ resp.op = "submitAssignment"
    /\ resp.status = CONFLICT
    /\ \E s \in ExistingSubmissions(resp.id, resp.user) : submissions[s].grade # NULL

-----------------------------------------------------------------------------
(* C12: is_late after creation *)

\* C12 as stated: a new submission is late exactly when its assignment has a
\* due date and the clock is past it, and no later request changes the
\* is_late of a submission that exists.
C12_IsLateFrozen ==
    [][/\ \A s \in DOMAIN submissions' \ DOMAIN submissions :
             LET dueDate == assignments[submissions'[s].assignment_id].due_date
             IN  Truthy(submissions'[s].is_late) <=> (dueDate # NULL /\ now > dueDate)
       /\ \A s \in DOMAIN submissions \cap DOMAIN submissions' :
             submissions'[s].is_late = submissions[s].is_late]_vars

\* After the due date, the student's update of an ungraded submission stored
\* is_late = true, the value of the time of the update.
C12_UpdateRewroteIsLate ==
    /\ resp.op = "updateSubmission"
    /\ resp.status = OK
    /\ Exists(submissions, resp.id)
    /\ resp.body.is_late = "true"
    /\ submissions[resp.id].is_late = "true"
    /\ submissions[resp.id].content = "b"
    /\ now > assignments[submissions[resp.id].assignment_id].due_date

-----------------------------------------------------------------------------
(* C23: the submissions of other students *)

\* C23: when a student asks to view, update or delete a submission whose
\* student_id is not the student's own id, the request fails and returns
\* nothing of the submission, the view with 403, and the submissions table is
\* left as it was.
C23_OthersSubmissionsClosed ==
    [][LET u == resp'.user
           id == resp'.id
       IN  (/\ \/ resp'.op = "getSubmissionById" /\ GetSubmissionById(u, id)
               \/ /\ resp'.op = "updateSubmission"
                  /\ UpdateSubmission(u, id, resp'.req.content, resp'.req.file_path)
               \/ resp'.op = "deleteSubmission" /\ DeleteSubmission(u, id)
            /\ users[u] = STUDENT
            /\ SubmissionVisible(id)
            /\ submissions[id].student_id # u)
           => /\ resp'.status \in {FORBIDDEN, NOT_FOUND}
              /\ resp'.op = "getSubmissionById" => resp'.status = FORBIDDEN
              /\ resp'.body = NoBody
              /\ submissions' = submissions]_vars

\* Student 5 asked for the submission of student 4 and was answered 403.
C23_ViewOfOthersDenied ==
    /\ resp.op = "getSubmissionById"
    /\ resp.user = 5
    /\ resp.status = FORBIDDEN
    /\ Exists(submissions, resp.id)
    /\ submissions[resp.id].student_id = 4

-----------------------------------------------------------------------------
(* SpecLate: students 4 and 5 submit to assignment 1, and take their
   submissions back, while time passes.  The assignment has no due date or
   is due at time 0 or 1, and takes late work or does not. *)

InitLate ==
    /\ users = InitUsers
    /\ courses = InitCourses
    /\ categories = {1}
    /\ modules = InitModules
    /\ lessons = InitLessons
    /\ quizzes = NoRows
    /\ \E due_date \in {NULL, 0, 1}, allow_late_submission \in BOOLEAN :
          assignments = [a \in {1} |-> Assignment(1, due_date, 100, allow_late_submission, 10)]
    /\ submissions = NoRows
    /\ enrollments = NoRows
    /\ nextId = [InitNextId EXCEPT !.assignments = 2]
    /\ now = 0
    /\ resp = NoResponse
    /\ inflight = NoRows

NextLate ==
    \/ \E u \in {4, 5}, c \in {"", "a"} : SubmitAssignment(u, 1, c, "")
    \/ \E u \in {4, 5}, id \in 1..MaxSubmissions : DeleteSubmission(u, id)
    \/ Tick

SpecLate == InitLate /\ [][NextLate]_vars

-----------------------------------------------------------------------------
(* C30: submitting after the due date *)

\* C30 as stated: a student's first submission to an assignment, with
\* content, is refused and creates nothing when it comes after the due date
\* and the assignment takes no late work; it is created with is_late true
\* when it comes after the due date and the assignment takes late work; it is
\* created with is_late false when the assignment has no due date or the due
\* date has not passed.
C30_LateSubmissionRules ==
    [][LET u == resp'.user
           a == resp'.id
       IN  (/\ resp'.op = "submitAssignment"
            /\ SubmitAssignment(u, a, resp'.req.content, resp'.req.file_path)
            /\ users[u] = STUDENT
            /\ AssignmentVisible(a)
            /\ ExistingSubmissions(a, u) = {}
            /\ ~NoContent(resp'.req.content, resp'.req.file_path))
           => LET late == assignments[a].due_date # NULL /\ now > assignments[a].due_date
              IN  IF late /\ ~assignments[a].allow_late_submission
                  THEN resp'.status = BAD_REQUEST /\ submissions' = submissions
                  ELSE /\ resp'.status = CREATED
                       /\ DOMAIN submissions' = DOMAIN submissions \cup {resp'.body.id}
                       /\ submissions'[resp'.body.id].student_id = u
                       /\ submissions'[resp'.body.id].is_late =
                             IF late THEN "true" ELSE "false"]_vars

\* A submission to an assignment without a due date was created and its
\* is_late is NULL.
C30_NoDueDateStoresNull ==
    /\ resp.op = "submitAssignment"
    /\ resp.status = CREATED
    /\ assignments[resp.id].due_date = NULL
    /\ Exists(submissions, resp.body.id)
    /\ submissions[resp.body.id].is_late = "null"

-----------------------------------------------------------------------------
(* SpecRace: requests that overlap.  Two connections serve student 4, who
   submits to assignment 1 (course 1, no due date) and rewrites the
   submissions, and instructor 2 and the admin, who grade them; a request's
   write comes any time after its reads. *)

InitRace ==
    /\ users = InitUsers
    /\ courses = InitCourses
    /\ categories = {1}
    /\ modules = InitModules
    /\ lessons = InitLessons
    /\ quizzes = NoRows
    /\ assignments = [a \in {1} |-> Assignment(1, NULL, 100, TRUE, 10)]
    /\ submissions = NoRows
    /\ enrollments = NoRows
    /\ nextId = [InitNextId EXCEPT !.assignments = 2]
    /\ now = 0
    /\ resp = NoResponse
    /\ inflight = NoRows

NextRace ==
    \E p \in {1, 2} :
       \/ \E c \in {"", "a"} : SubmitAssignmentBegin(p, 4, 1, c, "")
       \/ SubmitAssignmentEnd(p)
       \/ \E id \in 1..MaxSubmissions : UpdateSubmissionBegin(p, 4, id, "b", "")
       \/ UpdateSubmissionEnd(p)
       \* the owner grades 80 and the admin 90
       \/ \E id \in 1..MaxSubmissions, g \in {<<2, 80, "ok">>, <<1, 90, "good">>} :
             GradeSubmissionBegin(p, g[1], id, g[2], g[3])
       \/ GradeSubmissionEnd(p)

SpecRace == InitRace /\ [][NextRace]_vars

-----------------------------------------------------------------------------
(* C11: a graded submission and its student *)

\* C11 as stated: once the grade of a submission is not NULL, no request
\* removes the submission or changes its content or its file_path, whatever
\* the order in which the store serves the queries of a grade request and of
\* the student's update request.
C11_GradedIsFrozen ==
    [][\A s \in DOMAIN submissions :
          submissions[s].grade # NULL
          => /\ s \in DOMAIN submissions'
             /\ submissions'[s].content = submissions[s].content
             /\ submissions'[s].file_path = submissions[s].file_path]_vars

\* The student's update was answered 200 and its content is stored, on a
\* submission that was graded between the update's read and its write.
C11_UpdatedAfterGrade ==
    /\ resp.op = "updateSubmission"
    /\ resp.status = OK
    /\ Exists(submissions, resp.id)
    /\ submissions[resp.id].grade # NULL
    /\ submissions[resp.id].content = resp.req.content
    /\ submissions[resp.id].content # "a"

-----------------------------------------------------------------------------
(* C25: two graders at once *)

\* C25: a grade request that has passed its checks succeeds, and its write
\* stores the grade, the feedback and the grader of that one request
\* together; nothing but such a write changes any of the three.  So when two
\* graders grade a submission at once, both succeed and the three fields are
\* those of the request whose write came last, in every interleaving.
C25_LastGraderWins ==
    [][/\ \A p \in DOMAIN inflight :
             GradeSubmissionEnd(p)
             => LET r == inflight[p]
                IN  /\ resp'.status = OK
                    /\ submissions'[r.id].grade = r.finalGrade
                    /\ submissions'[r.id].feedback = r.req.feedback
                    /\ submissions'[r.id].graded_by = r.user
       /\ \A s \in DOMAIN submissions :
             LET Grading(row) == <<row.grade, row.feedback, row.graded_by>>
             IN  Grading(submissions'[s]) # Grading(submissions[s])
                 => \E p \in DOMAIN inflight : inflight[p].id = s /\ GradeSubmissionEnd(p)]_vars

\* The admin's grade of a submission was written while a request of the owner
\* to grade the same submission was in flight, and the submission holds the
\* admin's grade, feedback and id.
C25_AdminWroteOverOwner ==
    /\ resp.op = "gradeSubmission"
    /\ resp.user = 1
    /\ resp.status = OK
    /\ \E p \in DOMAIN inflight :
          /\ inflight[p].op = "gradeSubmission"
          /\ inflight[p].user = 2
          /\ inflight[p].id = resp.id
    /\ submissions[resp.id].grade = 9000
    /\ submissions[resp.id].feedback = "good"
    /\ submissions[resp.id].graded_by = 1

-----------------------------------------------------------------------------
(* C18: one submission for an assignment and a student *)

\* C18 as stated: in every state, whatever the order in which the store
\* serves the queries of two submit requests of one student for one
\* assignment, no two submissions have the same assignment and student.
C18_OneSubmissionPerPair ==
    \A s1, s2 \in DOMAIN submissions :
       (/\ submissions[s1].assignment_id = submissions[s2].assignment_id
        /\ submissions[s1].student_id = submissions[s2].student_id) => s1 = s2

\* Two submit requests of student 4 for assignment 1 were both answered 201,
\* and the student has two submissions for the assignment.
C18_BothSubmitsCreated ==
    /\ resp.op = "submitAssignment"
    /\ resp.status = CREATED
    /\ Cardinality(ExistingSubmissions(resp.id, resp.user)) = 2

-----------------------------------------------------------------------------
(* SpecGrade: grading.  Assignment 1 (course 1, instructor 2) has two
   submissions, of students 4 and 5; its max_points and late_penalty_percent,
   and whether the first submission was late, are drawn in the initial state
   (the second was late).
   The due date may have been edited since the submissions were made, so
   is_late is drawn independently of it. *)

MaxBatch == 2   \* the longest grades array of a bulk-grade request

StoredSubmission(a, u, is_late) ==
    [assignment_id |-> a, student_id |-> u, content |-> "a", file_path |-> "",
     is_late |-> is_late, grade |-> NULL, feedback |-> "",
     graded_at |-> NULL, graded_by |-> NULL]

InitGrade ==
    /\ users = InitUsers
    /\ courses = InitCourses
    /\ categories = {1}
    /\ modules = InitModules
    /\ lessons = InitLessons
    /\ quizzes = NoRows
    \* p is <<max_points, late_penalty_percent>>
    /\ \E p \in {<<100, 10>>, <<100, 0>>, <<150, 20>>, <<150, 100>>} :
          assignments = [a \in {1} |-> Assignment(1, 0, p[1], TRUE, p[2])]
    /\ \E late1 \in {"true", "false", "null"} :
          submissions = [s \in {1, 2} |->
                            StoredSubmission(1, s + 3, IF s = 1 THEN late1 ELSE "true")]
    /\ enrollments = NoRows
    /\ nextId = [InitNextId EXCEPT !.assignments = 2, !.submissions = 3]
    /\ now = 0
    /\ resp = NoResponse
    /\ inflight = NoRows

\* The items of a grades array: either submission with either grade (120 is
\* within 150 points and above 100), and a submission that does not exist.
BulkItems ==
    [submissionId : {1, 2}, grade : {80, 120}, feedback : {"ok"}]
        \cup {[submissionId |-> 3, grade |-> 80, feedback |-> "ok"]}

RECURSIVE Batches(_)
\* the grades arrays of length n
Batches(n) ==
    IF n = 0 THEN {<< >>}
    ELSE {Append(b, item) : b \in Batches(n - 1), item \in BulkItems}

NextGrade ==
    \/ \E u \in {1, 2, 3}, g \in {-1, 0, 50, 80, 120, 150, 151} :
          GradeSubmission(u, 1, g, "ok")
    \/ \E n \in 0..MaxBatch : \E grades \in Batches(n) : BulkGradeSubmissions(2, 1, grades)

SpecGrade == InitGrade /\ [][NextGrade]_vars

-----------------------------------------------------------------------------
(* C1: the stored grade *)

\* C1: a grade request that succeeds with raw grade g stores g when the
\* submission is not late and g * (1 - latePenaltyPercent / 100) when it is
\* late, and reports the same value as finalGrade; every item a bulk-grade
\* request grades is computed the same way, and the submission keeps the
\* value of the request's last item for it.
\* (ExpectedFinal is that value in hundredths; LastResultFor is the index of
\* the last result of a bulk response that is about submission s.)
C1_FinalGradeFormula ==
    [][LET ExpectedFinal(g, is_late, latePenaltyPercent) ==
               IF is_late = "true" THEN (g * 100) - (g * latePenaltyPercent) ELSE g * 100
           LastResultFor(results, s) ==
               CHOOSE i \in 1..Len(results) :
                   /\ results[i].submissionId = s
                   /\ \A j \in (i + 1)..Len(results) : results[j].submissionId # s
       IN
       /\ (/\ resp'.op = "gradeSubmission"
           /\ GradeSubmission(resp'.user, resp'.id, resp'.req.grade, resp'.req.feedback)
           /\ resp'.status = OK)
          => LET sub == submissions[resp'.id]
                 want == ExpectedFinal(resp'.req.grade, sub.is_late,
                             assignments[sub.assignment_id].late_penalty_percent)
             IN  /\ submissions'[resp'.id].grade = want
                 /\ resp'.body.finalGrade = want
                 /\ resp'.body.originalGrade = resp'.req.grade
       /\ (/\ resp'.op = "bulkGrade"
           /\ BulkGradeSubmissions(resp'.user, resp'.id, resp'.req)
           /\ resp'.status = OK)
          => LET results == resp'.body.results
                 pen == assignments[resp'.id].late_penalty_percent
             IN  /\ \A i \in 1..Len(results) :
                        results[i].finalGrade =
                            ExpectedFinal(results[i].originalGrade,
                                          submissions[results[i].submissionId].is_late, pen)
                 /\ \A s \in DOMAIN submissions :
                        IF \E i \in 1..Len(results) : results[i].submissionId = s
                        THEN submissions'[s].grade =
                                 results[LastResultFor(results, s)].finalGrade
                        ELSE submissions'[s] = submissions[s]]_vars

\* A late submission was graded 80 at a penalty of 10 percent and holds 72.
C1_WitnessSingle ==
    /\ resp.op = "gradeSubmission"
    /\ resp.status = OK
    /\ resp.req.grade = 80
    /\ submissions[resp.id].is_late = "true"
    /\ assignments[1].late_penalty_percent = 10
    /\ submissions[resp.id].grade = 7200

-----------------------------------------------------------------------------
(* C13: grading a late submission again *)

\* C13: whatever grade a late submission holds, a grade request that
\* succeeds with raw grade g stores g * (1 - latePenaltyPercent / 100), and so
\* does a bulk-grade request for the raw grade of its last item for the
\* submission; grading again with the raw grade of the request before leaves
\* the stored grade as it is.
C13_PenaltyNotCompounded ==
    [][/\ (/\ resp'.op = "gradeSubmission"
           /\ GradeSubmission(resp'.user, resp'.id, resp'.req.grade, resp'.req.feedback)
           /\ resp'.status = OK
           /\ submissions[resp'.id].is_late = "true")
          => LET id == resp'.id
                 pen == assignments[submissions[id].assignment_id].late_penalty_percent
             IN  /\ submissions'[id].grade = (resp'.req.grade * 100) - (resp'.req.grade * pen)
                 /\ (/\ resp.op = "gradeSubmission" /\ resp.status = OK
                     /\ resp.id = id /\ resp.req.grade = resp'.req.grade)
                    => submissions'[id].grade = submissions[id].grade
       /\ (/\ resp'.op = "bulkGrade"
           /\ BulkGradeSubmissions(resp'.user, resp'.id, resp'.req)
           /\ resp'.status = OK)
          => \A i \in 1..Len(resp'.body.results) :
                LET s == resp'.body.results[i].submissionId
                    g == resp'.body.results[i].originalGrade
                    pen == assignments[resp'.id].late_penalty_percent
                IN  (/\ submissions[s].is_late = "true"
                     /\ \A j \in (i + 1)..Len(resp'.body.results) :
                           resp'.body.results[j].submissionId # s)
                    => submissions'[s].grade = (g * 100) - (g * pen)]_vars

\* One request graded a late submission twice, 80 each time, at a penalty of
\* 10 percent, and the submission holds 72.
C13_GradedTwiceHolds72 ==
    /\ resp.op = "bulkGrade"
    /\ resp.status = OK
    /\ Len(resp.body.results) = 2
    /\ \A i \in {1, 2} : /\ resp.body.results[i].submissionId = 2
                         /\ resp.body.results[i].originalGrade = 80
    /\ submissions[2].is_late = "true"
    /\ assignments[1].late_penalty_percent = 10
    /\ submissions[2].grade = 7200

-----------------------------------------------------------------------------
(* C27: a batch of one and a single grade request *)

\* C27 as stated: a bulk-grade request of one item, for a submission of the
\* assignment, grades the submission exactly when a single grade request of
\* the same grader with the same raw grade would be accepted in the same
\* state, and then stores the final grade and the grader the single request
\* would store.
C27_BatchOfOneIsSingle ==
    [][(/\ resp'.op = "bulkGrade"
        /\ BulkGradeSubmissions(resp'.user, resp'.id, resp'.req)
        /\ resp'.status = OK
        /\ Len(resp'.req) = 1
        /\ Exists(submissions, resp'.req[1].submissionId)
        /\ submissions[resp'.req[1].submissionId].assignment_id = resp'.id)
       => LET item == resp'.req[1]
              s == item.submissionId
              single == gradeSubmissionStatus(resp'.user, s, item.grade)
          IN  /\ Len(resp'.body.results) = 1 <=> single = OK
              /\ Len(resp'.body.results) = 1
                 => /\ submissions'[s].grade =
                          FinalGrade(item.grade, submissions[s].is_late,
                                     assignments[resp'.id].late_penalty_percent)
                    /\ submissions'[s].graded_by = resp'.user]_vars

\* A batch of one graded a submission 120 of 150 points, a grade the single
\* route's validator refuses.
C27_BatchGraded120 ==
    /\ resp.op = "bulkGrade"
    /\ resp.status = OK
    /\ Len(resp.req) = 1
    /\ resp.req[1].grade = 120
    /\ Len(resp.body.results) = 1
    /\ gradeSubmissionStatus(resp.user, resp.req[1].submissionId, 120) = BAD_REQUEST
    /\ submissions[resp.req[1].submissionId].graded_by = resp.user

-----------------------------------------------------------------------------
(* SpecBulk: batches.  Instructor 2 grades the submissions of assignment 1
   in batches whose items may name a submission that does not exist, carry a
   grade out of range or carry a submissionId that is not an integer; the
   admin enrolls students 4 and 5 in course 1 in batches. *)

NextBulk ==
    \/ \E n \in 1..MaxBatch :
          \E grades \in [1..n -> [submissionId : {1, 2, 3, NotAnInteger}, grade : {80},
                                  feedback : {"ok"}]
                                     \cup {[submissionId |-> 1, grade |-> 151,
                                            feedback |-> "ok"]}] :
             BulkGradeSubmissions(2, 1, grades)
    \/ \E n \in 1..MaxBatch : \E userIds \in [1..n -> {4, 5}] : BulkEnrollUsers(1, userIds, 1)

SpecBulk == InitGrade /\ [][NextBulk]_vars

-----------------------------------------------------------------------------
(* C24: the items of a batch *)

\* C24 as stated: a bulk-grade or bulk-enroll request that is served answers
\* every item either in its results or in its errors, and every item in its
\* results is applied in the stored state when the request completes: the
\* submission holds the final grade reported for it and the grader, the
\* enrollment row exists.  A failed item undoes none that succeeded before it.
C24_SucceededItemsStay ==
    [][LET results == resp'.body.results
           LastResultFor(s) ==
               CHOOSE i \in 1..Len(results) :
                   /\ results[i].submissionId = s
                   /\ \A j \in (i + 1)..Len(results) : results[j].submissionId # s
       IN
       /\ (/\ resp'.op = "bulkGrade"
           /\ BulkGradeSubmissions(resp'.user, resp'.id, resp'.req)
           /\ resp'.status = OK)
          => /\ Len(results) + Len(resp'.body.errors) = Len(resp'.req)
             /\ \A i \in 1..Len(results) :
                   LET s == results[i].submissionId
                   IN  /\ submissions'[s].grade = results[LastResultFor(s)].finalGrade
                       /\ submissions'[s].graded_by = resp'.user
       /\ (/\ resp'.op = "bulkEnrollUsers"
           /\ BulkEnrollUsers(resp'.user, resp'.req, resp'.id)
           /\ resp'.status = OK)
          => /\ Len(resp'.body.enrollments) + Len(resp'.body.errors) = Len(resp'.req)
             /\ \A i \in 1..Len(resp'.body.enrollments) :
                   /\ resp'.body.enrollments[i] \in DOMAIN enrollments'
                   /\ enrollments'[resp'.body.enrollments[i]].course_id = resp'.id]_vars

\* A batch graded submission 1 and then failed on an item whose submissionId
\* is not an integer: the response reports submission 1 graded and the
\* submission holds no grade.
C24_GradedItemRolledBack ==
    /\ resp.op = "bulkGrade"
    /\ resp.status = OK
    /\ Len(resp.req) = 2
    /\ resp.req[2].submissionId = NotAnInteger
    /\ Len(resp.body.results) = 1
    /\ resp.body.results[1].submissionId = 1
    /\ resp.body.errors = <<NotAnInteger>>
    /\ submissions[1].grade = NULL

-----------------------------------------------------------------------------
(* C10: the range of a raw grade *)

\* C10 as stated: a grade request by an authorized grader (one that passes
\* the route's role gate and the controller's ownership check) succeeds for every
\* raw grade with 0 <= rawGrade <= max_points, and for every raw grade below 0
\* or above max_points fails with a validation error and leaves the
\* submission unchanged.
C10_RangeIsMaxPoints ==
    [][(/\ resp'.op = "gradeSubmission"
        /\ GradeSubmission(resp'.user, resp'.id, resp'.req.grade, resp'.req.feedback)
        /\ SubmissionVisible(resp'.id)
        /\ authorize({INSTRUCTOR, ADMIN}, resp'.user)
        /\ OwnerOrAdmin(resp'.user, courses[CourseOfSubmission(resp'.id)].instructor_id))
       => LET g == resp'.req.grade
              max_points == assignments[submissions[resp'.id].assignment_id].max_points
          IN  IF 0 <= g /\ g <= max_points
              THEN resp'.status = OK
              ELSE resp'.status = BAD_REQUEST /\ submissions' = submissions]_vars

\* The owner of the course graded a submission 120 out of 150 and was
\* answered 400.
C10_RejectedInRange ==
    /\ resp.op = "gradeSubmission"
    /\ resp.status = BAD_REQUEST
    /\ resp.req.grade = 120
    /\ SubmissionVisible(resp.id)
    /\ assignments[submissions[resp.id].assignment_id].max_points = 150
    /\ resp.user = courses[CourseOfSubmission(resp.id)].instructor_id

-----------------------------------------------------------------------------
(* SpecAuth: who may do what.  Course 1 (instructor 2) holds module 1,
   lesson 1, quiz 1, assignment 1 and a submission of student 4; instructor 3
   owns course 2.  The admin (user 1), both instructors and student 4 send
   every content request for course 1, the admin changes the role of user 2,
   and the admin and the student send the requests of the student-only
   routes. *)

InitAuth ==
    /\ users = InitUsers
    /\ courses = InitCourses
    /\ categories = {1}
    /\ modules = InitModules
    /\ lessons = InitLessons
    /\ quizzes = [q \in {1} |-> Quiz(1, TEXT, "Paris", NoOptions, 1)]
    /\ assignments = [a \in {1} |-> Assignment(1, NULL, 100, TRUE, 10)]
    /\ submissions = [s \in {1} |-> StoredSubmission(1, 4, "null")]
    /\ enrollments = NoRows
    /\ nextId = [InitNextId EXCEPT !.quizzes = 2, !.assignments = 2, !.submissions = 2]
    /\ now = 0
    /\ resp = NoResponse
    /\ inflight = NoRows

\* Creating and grading are behind a role gate, and all four users try them;
\* updating and deleting are not, and the student is left to the
\* student-only routes.
NextAuth ==
    \/ \E u \in {1, 2, 3, 4} : CreateModule(u, 1, "Basics")
    \/ \E u \in {1, 2, 3} : UpdateModule(u, 1, "Basics")
    \/ \E u \in {1, 2, 3} : DeleteModule(u, 1)
    \/ \E u \in {1, 2, 3, 4} : CreateLesson(u, 1, "Basics")
    \/ \E u \in {1, 2, 3} : UpdateLesson(u, 1, "Basics")
    \/ \E u \in {1, 2, 3} : DeleteLesson(u, 1)
    \/ \E u \in {1, 2, 3, 4} : CreateQuiz(u, 1, TEXT, "Paris", NoOptions, 1)
    \/ \E u \in {1, 2, 3} : UpdateQuiz(u, 1, "true")
    \/ \E u \in {1, 2, 3} : DeleteQuiz(u, 1)
    \/ \E u \in {1, 2, 3, 4} : CreateAssignment(u, 1, NULL, 100, TRUE, 10)
    \/ \E u \in {1, 2, 3} : UpdateAssignment(u, 1, 1)
    \/ \E u \in {1, 2, 3} : DeleteAssignment(u, 1)
    \/ \E u \in {1, 2, 3, 4} : GradeSubmission(u, 1, 80, "ok")
    \/ \E u \in {1, 3} : DemoteToStudent(u, 2)
    \/ \E u \in {1, 3} : PromoteToInstructor(u, 2)
    \/ \E u \in {1, 4} : SubmitAssignment(u, 1, "a", "")
    \/ \E u \in {1, 4} : SubmitQuizAnswers(u, 1, [q \in QuizzesOfLesson(1) |-> "Paris"])

SpecAuth == InitAuth /\ [][NextAuth]_vars

-----------------------------------------------------------------------------
(* C2: course ownership.  Every handler writes its own name to resp.op, so a
   step with resp'.op = "updateModule" is a step of UpdateModule with the
   request resp' records; the target's chain is read in the state before. *)

\* C2 as stated: for every create, update or delete on a module, lesson, quiz
\* or assignment and every grade on a submission, a principal that is not an
\* admin is allowed if and only if it is the instructor of the owning course,
\* and a denial changes no table.
\* (OnCourse, OnModule, OnLesson are the requests whose id is that of a
\* course, a module, a lesson; TargetVisible says that the entity a request
\* names exists under a course that is not deleted; TargetCourse is that
\* course.)
C2_AllowedIffOwner ==
    [][LET r == resp'
           OnCourse == {"createModule"}
           OnModule == {"updateModule", "deleteModule", "createLesson"}
           OnLesson == {"updateLesson", "deleteLesson", "createQuiz", "createAssignment"}
           OnQuiz == {"updateQuiz", "deleteQuiz"}
           OnAssignment == {"updateAssignment", "deleteAssignment"}
           OnSubmission == {"gradeSubmission"}
           TargetVisible ==
               CASE r.op \in OnCourse -> CourseVisible(r.id)
                 [] r.op \in OnModule -> ModuleVisible(r.id)
                 [] r.op \in OnLesson -> LessonVisible(r.id)
                 [] r.op \in OnQuiz -> QuizVisible(r.id)
                 [] r.op \in OnAssignment -> AssignmentVisible(r.id)
                 [] r.op \in OnSubmission -> SubmissionVisible(r.id)
                 [] OTHER -> FALSE
           TargetCourse ==
               CASE r.op \in OnCourse -> r.id
                 [] r.op \in OnModule -> CourseOfModule(r.id)
                 [] r.op \in OnLesson -> CourseOfLesson(r.id)
                 [] r.op \in OnQuiz -> CourseOfQuiz(r.id)
                 [] r.op \in OnAssignment -> CourseOfAssignment(r.id)
                 [] OTHER -> CourseOfSubmission(r.id)
       IN  (TargetVisible /\ users[r.user] # ADMIN)
           => /\ (r.status # FORBIDDEN) <=> (courses[TargetCourse].instructor_id = r.user)
              /\ r.status = FORBIDDEN => tables' = tables]_vars

\* The instructor of course 1, whose role is now student, was denied the
\* creation of a module in course 1.
C2_OwnerDenied ==
    /\ resp.op = "createModule"
    /\ resp.status = FORBIDDEN
    /\ CourseVisible(resp.id)
    /\ courses[resp.id].instructor_id = resp.user
    /\ users[resp.user] = STUDENT

-----------------------------------------------------------------------------
(* SpecLookup: requests by id, before and after their target is gone.  The
   database is that of SpecAuth.  Instructor 2, the owner of course 1, and
   student 4 send every request that names a module, lesson, quiz, assignment
   or submission of course 1; the deletes remove the entities, and the owner
   deletes the course. *)

NextLookup ==
    \/ \E id \in {1, 3} : UpdateModule(2, id, "Basics")
    \/ DeleteModule(2, 1)
    \/ CreateLesson(2, 1, "Basics")
    \/ UpdateLesson(2, 1, "Basics")
    \/ DeleteLesson(2, 1)
    \/ CreateQuiz(2, 1, TEXT, "Paris", NoOptions, 1)
    \/ UpdateQuiz(2, 1, "true")
    \/ DeleteQuiz(2, 1)
    \/ CreateAssignment(2, 1, NULL, 100, TRUE, 10)
    \/ UpdateAssignment(2, 1, 1)
    \/ DeleteAssignment(2, 1)
    \/ GradeSubmission(2, 1, 80, "ok")
    \/ SubmitAssignment(4, 1, "a", "")
    \/ UpdateSubmission(4, 1, "b", "")
    \/ DeleteSubmission(4, 1)
    \/ SubmitQuizAnswers(4, 1, [q \in QuizzesOfLesson(1) |-> "Paris"])
    \/ \E u \in {2, 4} : GetLessonById(u, 1, FALSE)
    \/ DeleteCourse(2, 1)

SpecLookup == InitAuth /\ [][NextLookup]_vars

-----------------------------------------------------------------------------
(* C14: looking up what is not there *)

\* C14 as stated: a request that passes its route's role gate and names a
\* module, lesson, quiz, assignment or submission that does not exist, or
\* whose course is deleted, is answered 404, is sent nothing, and changes no
\* table.
\* (OnModule ... OnSubmission are the requests whose id is that of a module
\* ... a submission; Missing says that the entity a request names does not
\* exist or lies under a deleted course.)
C14_MissingIsNotFound ==
    [][LET r == resp'
           OnModule == {"updateModule", "deleteModule", "createLesson"}
           OnLesson == {"updateLesson", "deleteLesson", "createQuiz", "createAssignment",
                        "submitQuizAnswers", "getLessonById"}
           OnQuiz == {"updateQuiz", "deleteQuiz"}
           OnAssignment == {"updateAssignment", "deleteAssignment", "submitAssignment"}
           OnSubmission == {"gradeSubmission", "updateSubmission", "deleteSubmission"}
           Gate == CASE r.op \in {"createLesson", "createQuiz", "createAssignment",
                                  "gradeSubmission"} -> {INSTRUCTOR, ADMIN}
                     [] r.op \in {"submitQuizAnswers", "submitAssignment",
                                  "updateSubmission", "deleteSubmission"} -> {STUDENT}
                     [] OTHER -> {STUDENT, INSTRUCTOR, ADMIN}
           Missing ==
               CASE r.op \in OnModule -> ~ModuleVisible(r.id)
                 [] r.op \in OnLesson -> ~LessonVisible(r.id)
                 [] r.op \in OnQuiz -> ~QuizVisible(r.id)
                 [] r.op \in OnAssignment -> ~AssignmentVisible(r.id)
                 [] r.op \in OnSubmission -> ~SubmissionVisible(r.id)
                 [] OTHER -> FALSE
       IN  (Missing /\ users[r.user] \in Gate)
           => /\ r.status = NOT_FOUND
              /\ r.body = NoBody
              /\ tables' = tables]_vars

\* The student's delete of a submission in a deleted course was answered 200
\* and removed the submission.
C14_DeletedUnderDeletedCourse ==
    /\ resp.op = "deleteSubmission"
    /\ resp.status = OK
    /\ ~Exists(submissions, resp.id)
    /\ courses[1].is_deleted
    /\ AssignmentJoins(1)

-----------------------------------------------------------------------------
(* C28: assignments that have submissions *)

\* C28 as stated: no step removes an assignment that a stored submission
\* belongs to, so the assignment of every stored submission stays stored; the
\* owner's request to delete such an assignment is answered 409.
C28_SubmittedAssignmentsStay ==
    [][LET Submitted(a) == \E s \in DOMAIN submissions : submissions[s].assignment_id = a
       IN  /\ \A a \in DOMAIN assignments : Submitted(a) => a \in DOMAIN assignments'
           /\ \A s \in DOMAIN submissions' :
                 submissions'[s].assignment_id \in DOMAIN assignments'
           /\ (/\ resp'.op = "deleteAssignment"
               /\ DeleteAssignment(resp'.user, resp'.id)
               /\ AssignmentVisible(resp'.id)
               /\ OwnerOrAdmin(resp'.user, courses[CourseOfAssignment(resp'.id)].instructor_id)
               /\ Submitted(resp'.id))
              => resp'.status = CONFLICT]_vars

\* The owner deleted lesson 1; its assignment is gone and the submission of
\* student 4 to it is still stored.
C28_LessonDeleteTookAssignment ==
    /\ resp.op = "deleteLesson"
    /\ resp.status = OK
    /\ Exists(submissions, 1)
    /\ submissions[1].student_id = 4
    /\ ~Exists(assignments, submissions[1].assignment_id)

-----------------------------------------------------------------------------
(* SpecStudent: student 4 enrolls in course 1, sets their progress and
   leaves; students 4 and 5 submit to its assignment and answer its quiz,
   enrolled or not, and update and delete submissions, which instructors 2
   and 3 grade.  Student 4 has submitted already. *)

NextStudent ==
    \/ \E course_id \in {1, 3} : EnrollInCourse(4, course_id)
    \/ UnenrollFromCourse(4, 1)
    \/ \E progress \in {50, 101} : UpdateProgress(4, 1, progress)
    \/ \E u \in {4, 5}, c \in {"", "a"} : SubmitAssignment(u, 1, c, "")
    \/ \E u \in {4, 5} : SubmitQuizAnswers(u, 1, [q \in QuizzesOfLesson(1) |-> "Paris"])
    \/ \E u \in {4, 5}, id \in 1..MaxSubmissions : DeleteSubmission(u, id)
    \/ \E u \in {4, 5}, id \in 1..MaxSubmissions : UpdateSubmission(u, id, "b", "")
    \/ \E g \in {<<2, 80>>, <<2, 101>>, <<3, 80>>}, id \in 1..MaxSubmissions :
          GradeSubmission(g[1], id, g[2], "ok")

SpecStudent == InitAuth /\ [][NextStudent]_vars

-----------------------------------------------------------------------------
(* C22: enrollment before submitting *)

\* C22 as stated: a student's request to submit to an assignment, or to submit
\* quiz answers for a lesson, of a course that exists is denied (403) exactly
\* when the student has no enrollment in that course; a request so denied
\* creates no submission and returns no grading result.
C22_SubmitRequiresEnrollment ==
    [][LET u == resp'.user
           course == IF resp'.op = "submitAssignment" THEN CourseOfAssignment(resp'.id)
                     ELSE CourseOfLesson(resp'.id)
       IN  (/\ \/ /\ resp'.op = "submitAssignment"
                  /\ SubmitAssignment(u, resp'.id, resp'.req.content, resp'.req.file_path)
                  /\ AssignmentVisible(resp'.id)
               \/ /\ resp'.op = "submitQuizAnswers"
                  /\ SubmitQuizAnswers(u, resp'.id, resp'.req)
                  /\ LessonVisible(resp'.id)
            /\ users[u] = STUDENT)
           => /\ resp'.status = FORBIDDEN <=> ~isUserEnrolled(u, course)
              /\ ~isUserEnrolled(u, course)
                 => submissions' = submissions /\ "results" \notin DOMAIN resp'.body]_vars

\* Student 5, with no enrollment in course 1, submitted to its assignment and
\* the submission was created.
C22_SubmittedWithoutEnrollment ==
    /\ resp.op = "submitAssignment"
    /\ resp.user = 5
    /\ resp.status = CREATED
    /\ ~isUserEnrolled(5, CourseOfAssignment(resp.id))
    /\ \E s \in DOMAIN submissions :
          submissions[s].student_id = 5 /\ submissions[s].assignment_id = resp.id

-----------------------------------------------------------------------------
(* C26: requests that fail *)

\* C26: a request to submit to an assignment, to update, delete or grade a
\* submission, to enroll or to set progress that is answered 400, 403, 404 or
\* 409 leaves the submissions and the enrollments as they were.
C26_FailedRequestsWriteNothing ==
    [][LET u == resp'.user
           id == resp'.id
           req == resp'.req
       IN  (/\ \/ /\ resp'.op = "submitAssignment"
                  /\ SubmitAssignment(u, id, req.content, req.file_path)
               \/ /\ resp'.op = "updateSubmission"
                  /\ UpdateSubmission(u, id, req.content, req.file_path)
               \/ resp'.op = "deleteSubmission" /\ DeleteSubmission(u, id)
               \/ /\ resp'.op = "gradeSubmission"
                  /\ GradeSubmission(u, id, req.grade, req.feedback)
               \/ resp'.op = "enrollInCourse" /\ EnrollInCourse(u, id)
               \/ resp'.op = "updateProgress" /\ UpdateProgress(u, id, req.progress)
            /\ resp'.status \in {BAD_REQUEST, FORBIDDEN, NOT_FOUND, CONFLICT})
           => submissions' = submissions /\ enrollments' = enrollments]_vars

\* Student 4 asked to delete a submission of their own that is graded and
\* was answered 400; the submission is still stored.
C26_GradedDeleteRefused ==
    /\ resp.op = "deleteSubmission"
    /\ resp.user = 4
    /\ resp.status = BAD_REQUEST
    /\ Exists(submissions, resp.id)
    /\ submissions[resp.id].student_id = 4
    /\ submissions[resp.id].grade # NULL

-----------------------------------------------------------------------------
(* C9: the admin *)

\* C9 as stated: no request of an admin is denied.
C9_AdminNeverDenied ==
    [][(resp'.op # "none" /\ users[resp'.user] = ADMIN)
       => resp'.status # FORBIDDEN]_vars

\* C9 as amended: a request of an admin is denied (403, no table changed)
\* exactly on the routes gated to students only; every other request of an
\* admin, whoever owns the course, is not denied.
C9_AdminDeniedOnlyOnStudentRoutes ==
    [][(resp'.op # "none" /\ users[resp'.user] = ADMIN)
       => IF resp'.op \in {"submitAssignment", "updateSubmission", "deleteSubmission",
                          "submitQuizAnswers"}
          THEN resp'.status = FORBIDDEN /\ tables' = tables
          ELSE resp'.status # FORBIDDEN]_vars

\* The admin sent submit-assignment and was denied.
C9_AdminDeniedSubmit ==
    /\ resp.op = "submitAssignment"
    /\ users[resp.user] = ADMIN
    /\ resp.status = FORBIDDEN

-----------------------------------------------------------------------------
(* SpecQuiz: quizzes.  Instructor 2 adds quizzes to lesson 1 of course 1;
   student 4 and instructor 2 read them and submit answers. *)

\* <<quiz_type, answer, options, points>> of a create request
QuizInputs ==
    {<<TEXT, "Paris", NoOptions, 1>>, <<TEXT, " ", NoOptions, 1>>,
     <<TRUE_FALSE, "true", NoOptions, 1>>, <<TRUE_FALSE, "True", NoOptions, 1>>,
     <<MULTIPLE_CHOICE, "A", <<"A", "B">>, 1>>,
     <<TEXT, "Paris", NoOptions, 23>>, <<TEXT, "Paris", NoOptions, 17>>}

InitQuiz ==
    /\ users = InitUsers
    /\ courses = InitCourses
    /\ categories = {1}
    /\ modules = InitModules
    /\ lessons = InitLessons
    /\ quizzes = NoRows
    /\ assignments = [a \in {1} |-> Assignment(1, NULL, 100, TRUE, 10)]
    /\ submissions = NoRows
    /\ enrollments = NoRows
    /\ nextId = [InitNextId EXCEPT !.assignments = 2]
    /\ now = 0
    /\ resp = NoResponse
    /\ inflight = NoRows

NextQuiz ==
    \/ \E in \in QuizInputs : CreateQuiz(2, 1, in[1], in[2], in[3], in[4])
    \* an answers object: some value, or none, for each of quizzes 1 and 2
    \/ \E u \in {2, 4}, qs \in SUBSET {1, 2} :
          \E answers \in [qs -> {"", "Paris", " paris ", "true", "True", "A", "C"}] :
             SubmitQuizAnswers(u, 1, answers)
    \/ \E u \in {2, 3, 4}, forStudent \in BOOLEAN : GetQuizzesByLesson(u, 1, forStudent)
    \/ \E u \in {2, 4}, includeAssessments \in BOOLEAN : GetLessonById(u, 1, includeAssessments)
    \/ GetRandomQuizQuestions(4, 1)

SpecQuiz == InitQuiz /\ [][NextQuiz]_vars

-----------------------------------------------------------------------------
(* SpecQuizRace: instructor 2 creates, updates and deletes the quizzes of
   lesson 1 while the requests of student 4 to submit answers are between
   their validation and their grading. *)

NextQuizRace ==
    \/ \E points \in {1, 2} : CreateQuiz(2, 1, TEXT, "Paris", NoOptions, points)
    \/ \E id \in {1, 2}, answer \in {"Paris", "Rome"} : UpdateQuiz(2, id, answer)
    \/ \E id \in {1, 2} : DeleteQuiz(2, id)
    \/ \E p \in {1, 2}, qs \in SUBSET {1, 2} :
          \E answers \in [qs -> {"Paris", "Rome"}] : SubmitQuizAnswersBegin(p, 4, 1, answers)
    \/ \E p \in {1, 2} : SubmitQuizAnswersEnd(p)

SpecQuizRace == InitQuiz /\ [][NextQuizRace]_vars

-----------------------------------------------------------------------------
(* C21: the quizzes validated and the quizzes graded *)

\* C21 as stated: whatever quizzes of the lesson are created, updated or
\* deleted while a submit-quiz-answers request is served, the quizzes in the
\* grading result it returns are exactly the quizzes its answers were
\* validated against.
C21_GradedAreValidated ==
    [][\A p \in DOMAIN inflight :
          SubmitQuizAnswersEnd(p)
          => DOMAIN resp'.body.results = inflight[p].quizzes]_vars

\* A request validated against quiz 1 alone was graded on quizzes 1 and 2,
\* with no answer for quiz 2.
C21_GradedUnvalidatedQuiz ==
    /\ resp.op = "submitQuizAnswers"
    /\ resp.status = OK
    /\ DOMAIN resp.req = {1}
    /\ DOMAIN resp.body.results = {1, 2}

-----------------------------------------------------------------------------
(* C3: stored answers in what a student is sent *)

\* C3 as stated: no response to a principal whose role is student (listing
\* the quizzes of a lesson with or without forStudent, getting a lesson with
\* its assessments, random practice questions, submitting quiz answers)
\* carries the stored correct answer of a quiz, be it as the answer of a
\* quiz it lists or as the correctAnswer of a result it reports.
C3_NoAnswerToStudent ==
    (resp.op # "none" /\ users[resp.user] = STUDENT /\ resp.status = OK)
    => CASE resp.op = "submitQuizAnswers" ->
               \A q \in DOMAIN resp.body.results :
                  "correctAnswer" \notin DOMAIN resp.body.results[q]
         [] resp.op \in {"getQuizzesByLesson", "getLessonById", "getRandomQuizQuestions"} ->
               \A q \in DOMAIN resp.body.quizzes : "answer" \notin DOMAIN resp.body.quizzes[q]
         [] OTHER -> TRUE

\* A student listed the quizzes of a lesson without forStudent and was sent
\* their stored answers.
C3_StudentSentAnswers ==
    /\ resp.op = "getQuizzesByLesson"
    /\ users[resp.user] = STUDENT
    /\ ~resp.req.forStudent
    /\ resp.status = OK
    /\ \E q \in DOMAIN resp.body.quizzes :
          /\ "answer" \in DOMAIN resp.body.quizzes[q]
          /\ resp.body.quizzes[q].answer = quizzes[q].answer

-----------------------------------------------------------------------------
(* C6: an answer outside the options of a multiple choice quiz *)

\* C6: a submission of quiz answers whose value for a multiple choice quiz
\* with a non-empty option set is none of its options is refused as a whole,
\* with a validation error when it comes from a student, and no grading
\* result (no isCorrect = false for that quiz) is returned.
C6_OutOfOptionsRejected ==
    [][(/\ resp'.op = "submitQuizAnswers"
        /\ \E q \in QuizzesOfLesson(resp'.id) :
              /\ quizzes[q].quiz_type = MULTIPLE_CHOICE
              /\ Len(quizzes[q].options) > 0
              /\ q \in DOMAIN resp'.req
              /\ resp'.req[q] \notin validOptions(quizzes[q]))
       => /\ resp'.status \in {BAD_REQUEST, FORBIDDEN}
          /\ users[resp'.user] = STUDENT => resp'.status = BAD_REQUEST
          /\ "results" \notin DOMAIN resp'.body
          /\ tables' = tables]_vars

\* A student answered "C" to a multiple choice quiz whose options are A and
\* B, every other quiz of the lesson being answered validly, and the
\* submission was refused.
C6_OptionCRefused ==
    /\ resp.op = "submitQuizAnswers"
    /\ users[resp.user] = STUDENT
    /\ resp.status = BAD_REQUEST
    /\ \E q \in QuizzesOfLesson(resp.id) \cap DOMAIN resp.req :
          /\ quizzes[q].quiz_type = MULTIPLE_CHOICE
          /\ quizzes[q].options = <<"A", "B">>
          /\ resp.req[q] = "C"
          /\ validateQuizAnswers(resp.req, QuizzesOfLesson(resp.id)) = {q}

-----------------------------------------------------------------------------
(* C19: answers that are missing *)

\* C19: when a student submits answers for a lesson and some quiz of the
\* lesson has no entry, or an empty one, the request is answered 400, the
\* error names every such quiz, no grading result is returned and no table
\* changes.
C19_MissingAnswersListed ==
    [][LET Unanswered == {q \in QuizzesOfLesson(resp'.id) :
                             q \notin DOMAIN resp'.req \/ resp'.req[q] = ""}
       IN  (/\ resp'.op = "submitQuizAnswers"
            /\ SubmitQuizAnswers(resp'.user, resp'.id, resp'.req)
            /\ users[resp'.user] = STUDENT
            /\ LessonVisible(resp'.id)
            /\ Unanswered # {})
           => /\ resp'.status = BAD_REQUEST
              /\ Unanswered \subseteq resp'.body.errors
              /\ "results" \notin DOMAIN resp'.body
              /\ tables' = tables]_vars

\* A student sent an empty answers object for a lesson with two quizzes; the
\* request was answered 400 and the error names both.
C19_BothQuizzesNamed ==
    /\ resp.op = "submitQuizAnswers"
    /\ users[resp.user] = STUDENT
    /\ resp.status = BAD_REQUEST
    /\ DOMAIN resp.req = {}
    /\ Cardinality(QuizzesOfLesson(resp.id)) = 2
    /\ resp.body.errors = QuizzesOfLesson(resp.id)

-----------------------------------------------------------------------------
(* C7: a fully correct answer set *)

\* C7 as stated: for a lesson with N >= 1 quizzes each worth P >= 1 points,
\* a student's answer set in which every answer equals the stored answer of
\* its quiz is graded score 100 with earnedPoints = totalPoints = N * P.
C7_AllCorrectScores100 ==
    [][(/\ resp'.op = "submitQuizAnswers"
        /\ users[resp'.user] = STUDENT
        /\ LessonVisible(resp'.id)
        /\ QuizzesOfLesson(resp'.id) # {}
        /\ \A q \in QuizzesOfLesson(resp'.id) :
              q \in DOMAIN resp'.req /\ resp'.req[q] = quizzes[q].answer)
       => \A P \in 1..MaxQuizPoints :
             (\A q \in QuizzesOfLesson(resp'.id) : quizzes[q].points = P)
             => /\ resp'.status = OK
                /\ resp'.body.score = 100
                /\ resp'.body.earnedPoints = resp'.body.totalPoints
                /\ resp'.body.totalPoints = Cardinality(QuizzesOfLesson(resp'.id)) * P]_vars

\* A student answered "True" to a true/false quiz whose stored answer is
\* "True", and the submission was refused.
C7_StoredAnswerRefused ==
    /\ resp.op = "submitQuizAnswers"
    /\ users[resp.user] = STUDENT
    /\ resp.status = BAD_REQUEST
    /\ QuizzesOfLesson(resp.id) # {}
    /\ \A q \in QuizzesOfLesson(resp.id) :
          q \in DOMAIN resp.req /\ resp.req[q] = quizzes[q].answer
    /\ \E q \in QuizzesOfLesson(resp.id) :
          quizzes[q].quiz_type = TRUE_FALSE /\ quizzes[q].answer = "True"

-----------------------------------------------------------------------------
(* C20: the grading result *)

\* C20 as stated: a grading result has earnedPoints the sum of the points of
\* the quizzes answered correctly, totalPoints the sum of the points of all
\* quizzes of the lesson, and score the percentage earnedPoints / totalPoints
\* * 100 rounded to the nearest integer (a half rounded up), 0 when
\* totalPoints is 0; so earnedPoints is from 0 to totalPoints and score from
\* 0 to 100.
C20_ScoreIsRoundedPercentage ==
    [][(/\ resp'.op = "submitQuizAnswers"
        /\ SubmitQuizAnswers(resp'.user, resp'.id, resp'.req)
        /\ resp'.status = OK)
       => LET qs == QuizzesOfLesson(resp'.id)
              Right == {q \in qs : q \in DOMAIN resp'.req
                                      /\ isCorrect(quizzes[q], resp'.req[q])}
              earned == SumOver(Right, [q \in Right |-> quizzes[q].points])
              total == SumOver(qs, [q \in qs |-> quizzes[q].points])
              r == resp'.body
          IN  /\ r.earnedPoints = earned
              /\ r.totalPoints = total
              /\ r.score = IF total = 0 THEN 0
                           ELSE CHOOSE n \in 0..100 :
                                   2 * n * total <= 200 * earned + total
                                   /\ 200 * earned + total < 2 * (n + 1) * total
              /\ 0 <= r.earnedPoints /\ r.earnedPoints <= r.totalPoints
              /\ 0 <= r.score /\ r.score <= 100]_vars

\* A student earned 23 of 40 points, 57.5 percent, and the score is 57.
C20_Scored57For23Of40 ==
    /\ resp.op = "submitQuizAnswers"
    /\ resp.status = OK
    /\ resp.body.earnedPoints = 23
    /\ resp.body.totalPoints = 40
    /\ resp.body.score = 57

-----------------------------------------------------------------------------
(* SpecEnroll: enrollments.  Students 4 and 5 enroll in course 1 (and in a
   course that does not exist), set their progress and unenroll, and the
   admin enrolls them in bulk, while time passes. *)

InitEnroll ==
    /\ users = InitUsers
    /\ courses = InitCourses
    /\ categories = {1}
    /\ modules = InitModules
    /\ lessons = InitLessons
    /\ quizzes = NoRows
    /\ assignments = NoRows
    /\ submissions = NoRows
    /\ enrollments = NoRows
    /\ nextId = [InitNextId EXCEPT !.assignments = 1]
    /\ now = 0
    /\ resp = NoResponse
    /\ inflight = NoRows

NextEnroll ==
    \/ \E u \in {4, 5} : EnrollInCourse(u, 1)
    \/ EnrollInCourse(4, 3)
    \/ \E u \in {4, 5}, p \in {-1, 50, 100, 101} : UpdateProgress(u, 1, p)
    \/ \E u \in {4, 5} : UnenrollFromCourse(u, 1)
    \/ \E u \in {1, 2}, userIds \in {<< >>, <<4>>, <<5, 4>>, <<4, 4>>} :
          BulkEnrollUsers(u, userIds, 1)
    \/ Tick

SpecEnroll == InitEnroll /\ [][NextEnroll]_vars

-----------------------------------------------------------------------------
(* C5: progress, completed and completed_at *)

\* C5: setting the progress of an existing enrollment to p, 0 <= p <= 100,
\* stores progress = p and completed = (p >= 100), with completed_at the
\* time of the write when p is 100 and NULL below it (so a progress of 50
\* written after 100 clears both); no other request changes an enrollment
\* row, so after any sequence of progress writes completed_at is non-NULL
\* exactly when completed is true.
C5_ProgressCompletion ==
    [][LET u == resp'.user
           c == resp'.id
       IN  /\ (/\ resp'.op = "updateProgress"
               /\ UpdateProgress(u, c, resp'.req.progress)
               /\ EnrollmentsOf(u, c) # {}
               /\ resp'.req.progress \in 0..MaxProgress)
              => /\ resp'.status = OK
                 /\ \A e \in EnrollmentsOf(u, c) :
                       /\ e \in DOMAIN enrollments'
                       /\ enrollments'[e].progress = resp'.req.progress
                       /\ enrollments'[e].completed = (resp'.req.progress >= 100)
                       /\ enrollments'[e].completed_at =
                             (IF resp'.req.progress >= 100 THEN now ELSE NULL)
                       /\ (enrollments'[e].completed_at # NULL) <=> enrollments'[e].completed
           /\ \A e \in DOMAIN enrollments \cap DOMAIN enrollments' :
                 enrollments'[e] # enrollments[e]
                 => /\ resp'.op = "updateProgress"
                    /\ e \in EnrollmentsOf(u, c)
                    /\ resp'.status = OK]_vars

\* A completed enrollment, its completed_at being time 1, the time of the
\* progress write of 100.
C5_CompletedAtTimeOne ==
    /\ resp.op = "updateProgress"
    /\ resp.status = OK
    /\ resp.req.progress = 100
    /\ now = 1
    /\ \E e \in EnrollmentsOf(resp.user, resp.id) :
          /\ enrollments[e].progress = 100
          /\ enrollments[e].completed
          /\ enrollments[e].completed_at = 1

-----------------------------------------------------------------------------
(* C15: completed_at of an enrollment that is already completed *)

\* C15 as stated: a progress write of 100 or more on an enrollment that is
\* already completed leaves its completed_at at the time of the write that
\* completed it.
C15_CompletedAtSetOnce ==
    [][(/\ resp'.op = "updateProgress"
        /\ UpdateProgress(resp'.user, resp'.id, resp'.req.progress)
        /\ resp'.req.progress >= 100)
       => \A e \in EnrollmentsOf(resp'.user, resp'.id) :
             enrollments[e].completed
             => /\ e \in DOMAIN enrollments'
                /\ enrollments'[e].completed_at = enrollments[e].completed_at]_vars

\* A progress write of 100 was answered with a row whose completed_at is the
\* time of this write, time 1.
C15_CompletedAtIsLastWrite ==
    /\ resp.op = "updateProgress"
    /\ resp.status = OK
    /\ resp.req.progress = 100
    /\ now = 1
    /\ resp.body.completed
    /\ resp.body.completed_at = now

-----------------------------------------------------------------------------
(* C16: progress writes that are refused, and where enrollments come from *)

\* C16: a progress write with a value below 0 or above 100 is refused with a
\* validation error, one for a (user, course) without an enrollment is
\* refused as not found, and neither creates or changes an enrollment; every
\* enrollment is created by an enroll or a bulk-enroll request, and the
\* progress of every stored enrollment is from 0 to 100.
C16_ProgressGuarded ==
    [][/\ (/\ resp'.op = "updateProgress"
           /\ UpdateProgress(resp'.user, resp'.id, resp'.req.progress))
          => LET p == resp'.req.progress
             IN  /\ (p < 0 \/ p > 100)
                    => resp'.status = BAD_REQUEST /\ enrollments' = enrollments
                 /\ (p >= 0 /\ p <= 100 /\ EnrollmentsOf(resp'.user, resp'.id) = {})
                    => resp'.status = NOT_FOUND /\ enrollments' = enrollments
                 /\ DOMAIN enrollments' = DOMAIN enrollments
       /\ \A e \in DOMAIN enrollments' \ DOMAIN enrollments :
             /\ \/ resp'.op = "enrollInCourse" /\ EnrollInCourse(resp'.user, resp'.id)
                \/ resp'.op = "bulkEnrollUsers"
                   /\ BulkEnrollUsers(resp'.user, resp'.req, resp'.id)
             /\ resp'.status \in {CREATED, OK}
       /\ \A e \in DOMAIN enrollments' :
             enrollments'[e].progress >= 0 /\ enrollments'[e].progress <= 100]_vars

\* A progress write of 101 on an enrollment at 50 was answered 400, and the
\* enrollment is at 50.
C16_RefusedAbove100 ==
    /\ resp.op = "updateProgress"
    /\ resp.req.progress = 101
    /\ resp.status = BAD_REQUEST
    /\ \E e \in EnrollmentsOf(resp.user, resp.id) : enrollments[e].progress = 50

-----------------------------------------------------------------------------
(* C17: one enrollment for a user and a course *)

\* C17: with requests served one at a time, no user ever has two enrollments
\* in one course; an enroll request of a user who is enrolled in the (open)
\* course is answered 409 and changes nothing; a bulk-enroll request reports
\* in errors each user it names who is enrolled already, or whom it has just
\* enrolled, and creates one row for each other user it names.
C17_OneEnrollmentPerPair ==
    [][/\ \A e1, e2 \in DOMAIN enrollments' :
             (/\ enrollments'[e1].user_id = enrollments'[e2].user_id
              /\ enrollments'[e1].course_id = enrollments'[e2].course_id) => e1 = e2
       /\ (/\ resp'.op = "enrollInCourse"
           /\ EnrollInCourse(resp'.user, resp'.id)
           /\ CourseVisible(resp'.id)
           /\ courses[resp'.id].is_published
           /\ EnrollmentsOf(resp'.user, resp'.id) # {})
          => resp'.status = CONFLICT /\ enrollments' = enrollments
       /\ (/\ resp'.op = "bulkEnrollUsers"
           /\ BulkEnrollUsers(resp'.user, resp'.req, resp'.id)
           /\ resp'.status = OK)
          => LET userIds == resp'.req
                 Named == {userIds[i] : i \in 1..Len(userIds)}
                 Refused == {i \in 1..Len(userIds) :
                                \/ EnrollmentsOf(userIds[i], resp'.id) # {}
                                \/ \E j \in 1..(i - 1) : userIds[j] = userIds[i]}
             IN  /\ Len(resp'.body.errors) = Cardinality(Refused)
                 /\ \A i \in Refused :
                       \E k \in 1..Len(resp'.body.errors) : resp'.body.errors[k] = userIds[i]
                 /\ Cardinality(DOMAIN enrollments' \ DOMAIN enrollments)
                       = Cardinality({u \in Named : EnrollmentsOf(u, resp'.id) = {}})
                 /\ \A e \in DOMAIN enrollments : enrollments'[e] = enrollments[e]]_vars

\* The admin named student 4 twice in one bulk-enroll request: one row was
\* created, the second item is in errors.
C17_NamedTwiceEnrolledOnce ==
    /\ resp.op = "bulkEnrollUsers"
    /\ resp.status = OK
    /\ resp.req = <<4, 4>>
    /\ Len(resp.body.enrollments) = 1
    /\ resp.body.errors = <<4>>
    /\ Cardinality(EnrollmentsOf(4, resp.id)) = 1

-----------------------------------------------------------------------------
(* SpecCat: categories.  Courses 1 and 2 each lie in category 1 or 2;
   category 3 has no course.  The admin and the instructors delete courses,
   the admin and others try to delete categories, and all of them try to
   publish or unpublish course 1. *)

InitCat ==
    /\ users = InitUsers
    /\ \E c1, c2 \in {1, 2} :
          courses = [c \in {1, 2} |->
                        [InitCourses[c] EXCEPT !.category_id = IF c = 1 THEN c1 ELSE c2]]
    /\ categories = {1, 2, 3}
    /\ modules = InitModules
    /\ lessons = InitLessons
    /\ quizzes = NoRows
    /\ assignments = NoRows
    /\ submissions = NoRows
    /\ enrollments = NoRows
    /\ nextId = [InitNextId EXCEPT !.assignments = 1, !.categories = 4]
    /\ now = 0
    /\ resp = NoResponse
    /\ inflight = NoRows

NextCat ==
    \/ \E u \in {1, 2, 3}, c \in {1, 2} : DeleteCourse(u, c)
    \/ \E u \in {1, 2, 4}, id \in {1, 2, 3} : DeleteCategory(u, id)
    \/ \E u \in {1, 2, 3, 4} : ToggleCoursePublishStatus(u, 1)

SpecCat == InitCat /\ [][NextCat]_vars

-----------------------------------------------------------------------------
(* C8: deleting a category *)

\* C8 as stated: the admin's delete of a category that a course not deleted
\* references fails with a conflict and leaves the category and the courses
\* as they are; the delete of a category that no course not deleted
\* references succeeds and removes the category.
C8_DeleteCategoryByReferences ==
    [][(/\ resp'.op = "deleteCategory"
        /\ users[resp'.user] = ADMIN
        /\ resp'.id \in categories)
       => IF CoursesOfCategory(resp'.id) # {}
          THEN /\ resp'.status = CONFLICT
               /\ categories' = categories
               /\ courses' = courses
          ELSE /\ resp'.status = OK
               /\ categories' = categories \ {resp'.id}]_vars

\* The admin's delete of a category that only a deleted course references
\* was refused, and the category is still there.
C8_DeletedCourseBlocksDelete ==
    /\ resp.op = "deleteCategory"
    /\ users[resp.user] = ADMIN
    /\ resp.status = BAD_REQUEST
    /\ resp.id \in categories
    /\ CoursesOfCategory(resp.id) = {}
    /\ \E c \in CourseRowsOfCategory(resp.id) : courses[c].is_deleted

-----------------------------------------------------------------------------
(* C29: publishing and unpublishing *)

\* C29 as stated: a request of the owner of a course, or of an admin, to
\* toggle its publish status succeeds, flips is_published and leaves every
\* other field of the course as it was (so a second toggle restores the
\* course).
C29_ToggleFlipsPublishedOnly ==
    [][(/\ resp'.op = "toggleCoursePublishStatus"
        /\ ToggleCoursePublishStatus(resp'.user, resp'.id)
        /\ users[resp'.user] \in {ADMIN, INSTRUCTOR}
        /\ CourseVisible(resp'.id)
        /\ OwnerOrAdmin(resp'.user, courses[resp'.id].instructor_id))
       => /\ resp'.status = OK
          /\ courses' = Put(courses, resp'.id,
                 [courses[resp'.id] EXCEPT !.is_published = ~courses[resp'.id].is_published])]_vars

\* The owner unpublished course 1 and the course has lost its category,
\* which no request has deleted.
C29_ToggleClearedCategory ==
    /\ resp.op = "toggleCoursePublishStatus"
    /\ resp.user = 2
    /\ resp.status = OK
    /\ categories = {1, 2, 3}
    /\ ~courses[1].is_published
    /\ courses[1].category_id = NULL

====
